---- MODULE Spec2Model ----
(***************************************************************************)
(* AskAI: the streaming session (producer goroutine, NextTokenCmd, the     *)
(* archival command saveCmd) and the Bubble Tea consumer (Model.Update).   *)
(*                                                                         *)
(* The repository holds two implementations of package llm.  variant "A"   *)
(* is src/unnamed/part_004 (stop channel, producer closes its channels),   *)
(* variant "B" is the package llm text of src/internal/logger/             *)
(* file_logger.go (context, non-blocking send).  A run is built with one   *)
(* of them; Init chooses which.                                            *)
(*                                                                         *)
(* Text is a sequence of chunk numbers: the k-th non-empty chunk of a      *)
(* session is <<k>>, the empty string is << >>, string concatenation is \o *)
(***************************************************************************)
EXTENDS Integers, Sequences, FiniteSets, Bags, TLC

\* ---- bounds of the model ----
MaxSessions == 2      \* questions submitted in a run with several sessions
MaxChunks == 3        \* non-empty chunks the service sends in a run with one session
MaxMultiChunks == 1   \* non-empty chunks it sends in a run with several sessions
MaxAnswers == 6       \* answers to one question in a run with many answers
MaxCallers == 2       \* goroutines calling Model.StoreQA at once
MaxFaults == 2        \* failures of a service or the file system in a run with failures
MaxFaultCalls == 2    \* Model.StoreQA calls in a run with failures
MaxAdminCalls == 3    \* EnsureCollection / ResetIndex calls in a run
MaxKeys == 15         \* Up / Down presses in a run on the temperature
MaxEdits == 2         \* edits begun and settings saved from the menu in a run
MaxLogCalls == 3      \* goroutines calling GetLogger in a run

\* ---- program constants ----
StreamCap == 64       \* make(chan string, 64)
ErrCap == 1           \* make(chan error, 1)
RespCap == 1          \* responseCh := make(chan string, 1)
SearchLimit == 5      \* Limit: 5 of the search in QAExists
VectorSize == 1024    \* vectorSize, the dimension of the collection

Sessions == 1..MaxSessions
ChanIds == 1..MaxSessions
Nil == 0              \* a nil channel field; channels are numbered from 1
Questions == {"q1"}

VARIABLES
    variant,       \* which package llm the run is built with
    chunkLimit,    \* environment: most non-empty chunks the service sends in the run
    sessLimit,     \* environment: most questions the user submits
    phase,         \* "running" | "quit" | "crashed" (an unrecovered panic)
    panic,         \* the value of the unrecovered panic, "" if none
    TextInput,     \* Model.TextInput.Value()
    Msg,           \* Model.Msg: [err: error prefix or "", toks: appended chunks]
    LastQuestion,  \* Model.LastQuestion
    Streaming,     \* Model.Streaming
    StreamCh,      \* Model.StreamCh: channel id or Nil
    ErrCh,         \* Model.ErrCh
    StopCh,        \* Model.StopCh
    cpc,           \* where the consumer is inside safeCloseChannels
    afterClose,    \* what the handler does once safeCloseChannels returns
    nSessions,     \* sessions started so far
    outCh,         \* token channels: id -> [buf, closed]
    errCh,         \* error channels: id -> [buf, closed]
    stopCh,        \* stop channels: id -> closed?
    respCh,        \* full-response channels: session -> [buf, closed]
    prod,          \* producer goroutine of each session
    emitted,       \* non-empty chunks the producer of each session took from the service
    fullSender,    \* variant A: the goroutine sendFullResponse starts
    cmds,          \* bag of NextTokenCmd invocations in flight
    inbox,         \* bag of messages produced by commands, not yet handled by Update
    save,          \* saveCmd of each session
    storeCalls,    \* the Model.StoreQA invocations made, in order
    hist,          \* history of each session, read by the properties only
    storeEnv,      \* environment of the Model.StoreQA calls (see StoreInit)
    points,        \* the Qdrant collection: the set of stored points
    archive,       \* vault/que_ans.json: the sequence QAFile.QAs
    uuids,         \* number of uuid.New() calls made
    sq,            \* the Model.StoreQA call of each caller goroutine
    nCalls,        \* Model.StoreQA calls started
    nFaults,       \* failures of the embedder, the store and the file system so far
    collection,    \* the Qdrant collection askai_questions: NoCollection or its config
    admin,         \* the EnsureCollection / ResetIndex / Embed call in progress
    ScreenMode,    \* Model.ScreenMode: "chat" | "options"
    SelectedOpt,   \* Model.SelectedOpt: index into Model.Options
    Temperature,   \* Model.Temperature, in units of Tenth / 1000
    EditingModel,  \* Model.EditingModel
    EditingAPIURL, \* Model.EditingAPIURL
    ModelName,     \* Model.ModelName
    ModelInput,    \* Model.ModelInput.Value()
    APIURLInput,   \* Model.APIURLInput.Value()
    environ,       \* the process environment: OLLAMA_API_URL, OLLAMA_MODEL
    config,        \* vault/config.json: NoConfig or the Config last saved
    request,       \* the arguments of the last StartStreamCmdWithCallback
    optEnv,        \* environment of the options screen (see OptionsInit)
    nKeys,         \* Up / Down presses so far
    nEdits,        \* edits begun so far
    reindex,       \* the goroutine running Model.StoreCurrentQuestion
    singleton,     \* package logger: the single logger instance, NoLogger for nil
    once,          \* package logger: the sync.Once, "new" | "running" | "done"
    getLogger      \* the GetLogger call of each calling goroutine

\* the streaming session
sessionVars == <<variant, chunkLimit, sessLimit, phase, panic, TextInput, Msg,
                 LastQuestion, Streaming, StreamCh, ErrCh, StopCh, cpc, afterClose,
                 nSessions, outCh, errCh, stopCh, respCh, prod, emitted, fullSender,
                 cmds, inbox, save, storeCalls, hist>>
\* the similarity store, the archive file and the Model.StoreQA calls
\* the collection's configuration and the calls that manage it
collVars == <<collection, admin>>
\* the singleton of package logger and the calls of GetLogger
logVars == <<singleton, once, getLogger>>
storeVars == <<storeEnv, points, archive, uuids, sq, nCalls, nFaults, collVars,
               reindex, logVars>>
\* the options screen: the fields of Model it changes, and the settings
uiVars == <<ScreenMode, SelectedOpt, Temperature, EditingModel, EditingAPIURL,
            ModelName, ModelInput, APIURLInput>>
optVars == <<uiVars, environ, config, request, optEnv, nKeys, nEdits>>
vars == <<sessionVars, storeVars, optVars>>

consumerVars == <<TextInput, Msg, LastQuestion, Streaming, StreamCh, ErrCh, StopCh,
                  cpc, afterClose, nSessions>>
\* what no step of the streaming session changes: its environment, and the state
\* of the store (saveCmd's call of Model.StoreQA is recorded in storeCalls; the
\* call itself is the subject of StoreSpec)
runVars == <<variant, chunkLimit, sessLimit, storeVars, uiVars, environ, config,
            optEnv, nKeys, nEdits>>
envVars == <<runVars, request>>
keptVars == <<emitted, storeCalls>>   \* outside the process: the service, the store
exitVars == <<phase, panic>>

\* ---- text ----
EmptyText == << >>
Chunk(k) == <<k>>
RECURSIVE Concat(_)
Concat(chunks) ==
    IF chunks = << >> THEN EmptyText ELSE Head(chunks) \o Concat(Tail(chunks))
\* the chunks c1..cn of a call that emitted n non-empty chunks
ChunksUpTo(n) == [k \in 1..n |-> Chunk(k)]

EmptyMsg == [err |-> "", toks |-> EmptyText]
ErrorMsg(e) == [err |-> e, toks |-> EmptyText]
UnknownError == "Error: An unknown error occurred during streaming"

\* ---- channels ----
NewChan == [buf |-> << >>, closed |-> FALSE]
CanRecv(c) == c.buf # << >> \/ c.closed
HasRoom(c, cap) == Len(c.buf) < cap

NoProd == [pc |-> "none", out |-> Nil, errCh |-> Nil, stop |-> Nil,
           full |-> EmptyText, cur |-> EmptyText, err |-> "nil", exit |-> ""]
NoSender == [st |-> "none", val |-> EmptyText]
NoSave == [st |-> "none", q |-> "", got |-> EmptyText]
\* ret: what completion.ChatStream returned ("" while it has not returned);
\* pushed: the chunks that entered the token channel; observed: the chunks of the
\* TokenMsg messages Update handled; events: the terminal events of the session;
\* outCloses: who executed close on the token channel; errSent: errors that
\* entered the error channel; stopPush: a chunk entered the token channel with the
\* stop channel closed; lateSend: a send was attempted after a terminal event
NoHist == [ret |-> "", pushed |-> << >>, observed |-> << >>, events |-> << >>,
           outCloses |-> << >>, errSent |-> 0, stopPush |-> FALSE,
           lateSend |-> FALSE]
(***************************************************************************)
(* The deduplicated store: Model.StoreQA (src/internal/ui/model.go) with   *)
(* VectorStore.QAExists and VectorStore.StoreQA (src/unnamed/part_003).    *)
(* A call is a sequence of steps, one per remote or file operation;        *)
(* StoreSpec runs the calls on their own, without a streaming session.     *)
(* A point's payload field stored_at and a QA entry's Time are left out.   *)
(***************************************************************************)
Callers == 1..MaxCallers
NoText == << >>
\* the texts of the model: questions q1, q2, ... and answers a1, a2, ...
QText(i) == <<"q", i>>
AText(i) == <<"a", i>>

\* OllamaEmbedder.Embed: the vector the embedding model returns for a prompt;
\* the same request gives the same vector; its length is the model's, Embed
\* tests only that it is not 0
Embedding(text) ==
    [model |-> "mxbai-embed-large", prompt |-> text, len |-> storeEnv.dim]
NoVector == [model |-> "", prompt |-> NoText, len |-> 0]

\* the PointStruct StoreVector builds from the arguments VectorStore.StoreQA passes
Point(id, vector, question, answer) ==
    [id |-> id, vector |-> vector,
     payload |-> [type |-> "qa_pair", question |-> question, answer |-> answer,
                  vector_type |-> "question"]]

\* cosine similarity of a stored point to the query vector, as far as the order
\* of the results needs it: an identical vector scores highest
Score(p, v) == IF p.vector = v THEN 1 ELSE 0

Min(a, b) == IF a <= b THEN a ELSE b

\* pointsClient.Search with Limit 5 and the filter type = qa_pair: the results it
\* can return are the sets of the SearchLimit best-scoring points; which of
\* several points with the same score it returns is up to the store
Search(v) ==
    LET cands == {p \in points : p.payload.type = "qa_pair"}
        k == Min(SearchLimit, Cardinality(cands))
    IN  {H \in SUBSET cands :
            /\ Cardinality(H) = k
            /\ \A x \in H, y \in cands \ H : Score(x, v) >= Score(y, v)}

\* one remote or file operation of a call, for the properties
Op(op, arg, ok) == [op |-> op, arg |-> arg, ok |-> ok]

\* QAExists comparing only the stored question with the input
QAExists_QuestionOnly(question, answer, embedOk, searchOk, H) ==
    IF ~embedOk
    THEN [exists |-> FALSE, err |-> "failed to embed question",
          ops |-> <<Op("embed", question, FALSE)>>]
    ELSE IF ~searchOk
    THEN [exists |-> FALSE, err |-> "search failed",
          ops |-> <<Op("embed", question, TRUE), Op("search", question, FALSE)>>]
    ELSE [exists |-> \E p \in H : p.payload.question = question,
          err |-> "nil",
          ops |-> <<Op("embed", question, TRUE), Op("search", question, TRUE)>>]

\* VectorStore.QAExists(question, answer), given whether the embedder and the
\* search answer, and the search result: (exists, err) and the operations made
QAExists(question, answer, embedOk, searchOk, H) ==
    IF ~embedOk
    THEN [exists |-> FALSE, err |-> "failed to embed question",
          ops |-> <<Op("embed", question, FALSE)>>]
    ELSE IF ~searchOk
    THEN [exists |-> FALSE, err |-> "search failed",
          ops |-> <<Op("embed", question, TRUE), Op("search", question, FALSE)>>]
    ELSE [exists |-> \E p \in H : /\ p.payload.question = question
                                  /\ p.payload.answer = answer,
          err |-> "nil",
          ops |-> <<Op("embed", question, TRUE), Op("search", question, TRUE)>>]

\* the length of the vectors of another embedding model (768)
ShortSize == VectorSize - 256

\* what one QAExists of a call got from the search and answered, for the
\* properties
Checked(r, H) ==
    IF r.err = "nil" THEN <<[hits |-> H, exists |-> r.exists]>> ELSE << >>

\* ---- package logger ----
LogCallers == 1..MaxLogCalls
\* the nil *Logger, and the Logger NewLogger returns to the caller g for a path
NoLogger == [by |-> 0, file |-> ""]
Logger(g, logPath) == [by |-> g, file |-> logPath]
\* a GetLogger call: its position, its argument, its local err and what it returned
NoGetLogger == [pc |-> "none", logPath |-> "", err |-> "nil",
                ret |-> [logger |-> NoLogger, err |-> "nil"]]
\* var singleton *Logger; var once sync.Once; no call made
LoggerStart ==
    /\ singleton = NoLogger
    /\ once = "new"
    /\ getLogger = [g \in LogCallers |-> NoGetLogger]

\* the goroutine of StoreCurrentQuestion: its position, the QAs it parsed and the
\* index of its loop; for the properties the file it read and its successCount
NoReindex == [pc |-> "none", qas |-> << >>, i |-> 0, file |-> << >>, successCount |-> 0]

NoPrev == [q |-> NoText, a |-> NoText, clean |-> FALSE, ret |-> ""]
\* a Model.StoreQA call: its position, arguments and locals, and for the
\* properties its operations, the size of the store and of the archive when it
\* began, and the call the same caller made before it
NoCall == [pc |-> "idle", q |-> NoText, a |-> NoText, qas |-> << >>,
           qEmb |-> NoVector, aEmb |-> NoVector, ops |-> << >>, ret |-> "",
           points0 |-> 0, arch0 |-> 0, prev |-> NoPrev, checks |-> << >>]

\* every operation of the call succeeded
Clean(call) == \A i \in 1..Len(call.ops) : call.ops[i].ok
Summary(call) ==
    IF call.pc = "done"
    THEN [q |-> call.q, a |-> call.a, clean |-> Clean(call), ret |-> call.ret]
    ELSE NoPrev

\* the call returns err ("nil": no error); its locals are gone
Return(call, err, ops) ==
    [call EXCEPT !.pc = "done", !.ret = err, !.ops = @ \o ops, !.qas = << >>,
                 !.qEmb = NoVector, !.aEmb = NoVector]

StoreEnvs ==
    {[name |-> "faults", questions |-> 2, answers |-> 2, callers |-> 1,
      faultLimit |-> MaxFaults, callLimit |-> MaxFaultCalls, dim |-> VectorSize],
     [name |-> "answers", questions |-> 1, answers |-> MaxAnswers, callers |-> 1,
      faultLimit |-> 0, callLimit |-> MaxAnswers + 1, dim |-> VectorSize],
     [name |-> "parallel", questions |-> 1, answers |-> 1, callers |-> MaxCallers,
      faultLimit |-> 0, callLimit |-> MaxCallers, dim |-> VectorSize],
     [name |-> "dimension", questions |-> 1, answers |-> 1, callers |-> 1,
      faultLimit |-> 0, callLimit |-> 1, dim |-> ShortSize]}
NoStoreEnv ==
    [name |-> "none", questions |-> 0, answers |-> 0, callers |-> 0,
     faultLimit |-> 0, callLimit |-> 0, dim |-> VectorSize]

\* ---- the collection ----
\* vectorsConfig of a collection: pb.VectorParams{Size, Distance}
Collection(size) == [size |-> size, distance |-> "Cosine"]
NoCollection == [size |-> 0, distance |-> ""]

\* error texts of the collections service: a gRPC status error reads
\* "rpc error: code = ... desc = ..."
GrpcNotFound == "rpc error: code = NotFound desc = collection not found"
GrpcAlreadyExists == "rpc error: code = AlreadyExists desc = collection exists"
GrpcUnavailable == "rpc error: code = Unavailable desc = connection refused"
NotFoundTexts == {"not found", "collection not found", GrpcNotFound}

\* isNotFoundError(err); "" is the nil error
isNotFoundError(err) ==
    err # "" /\ (err = "not found" \/ err = "collection not found")

\* ---- the embedder ----
\* what the POST to /api/embeddings gives: whether client.Do returned a response,
\* its status code, whether the body decodes into EmbedResponse, and the length
\* of the embedding in it
StatusOK == 200
Responses ==
    [sent : BOOLEAN, status : {StatusOK, 404, 500}, decodes : BOOLEAN,
     len : {0, ShortSize, VectorSize}]
NoResponse == [sent |-> FALSE, status |-> 0, decodes |-> FALSE, len |-> 0]
Result(vec, err, called) == [vec |-> vec, err |-> err, called |-> called]

\* OllamaEmbedder.Embed without the test of an empty embedding
OllamaEmbed_NoEmptyTest(text, resp) ==
    IF ~resp.sent
    THEN Result(NoVector, "failed to send request to Ollama", TRUE)
    ELSE IF resp.status # StatusOK
    THEN Result(NoVector, "ollama API returned non-200 status", TRUE)
    ELSE IF ~resp.decodes
    THEN Result(NoVector, "failed to decode Ollama response", TRUE)
    ELSE Result([model |-> "mxbai-embed-large", prompt |-> text, len |-> resp.len],
                "", TRUE)

\* OllamaEmbedder.Embed(text), given the response: the vector and the error
\* ("" is nil)
OllamaEmbed(text, resp) ==
    IF ~resp.sent
    THEN Result(NoVector, "failed to send request to Ollama", TRUE)
    ELSE IF resp.status # StatusOK
    THEN Result(NoVector, "ollama API returned non-200 status", TRUE)
    ELSE IF ~resp.decodes
    THEN Result(NoVector, "failed to decode Ollama response", TRUE)
    ELSE IF resp.len = 0
    THEN Result(NoVector, "no embedding data returned from Ollama", TRUE)
    ELSE Result([model |-> "mxbai-embed-large", prompt |-> text, len |-> resp.len],
                "", TRUE)

\* VectorStore.Embed(text): embedder is "nil" or the configured embedder
Embed(embedder, text, resp) ==
    IF embedder = "nil"
    THEN Result(NoVector, "no embedder configured", FALSE)
    ELSE OllamaEmbed(text, resp)

NoInput == [embedder |-> "nil", text |-> NoText, resp |-> NoResponse]
NoOutput == Result(NoVector, "", FALSE)

\* one request to the collections service and the error it returned
Req(name, err) == [req |-> name, err |-> err]
NoAdminPrev == [fn |-> "none", ret |-> "", after |-> NoCollection]
\* a call of EnsureCollection, ResetIndex or Embed: its position and argument,
\* and for the properties its requests, the collection and the number of points
\* when it began, and the call made before it
NoAdmin == [fn |-> "none", pc |-> "idle", size |-> 0, reqs |-> << >>, ret |-> "",
            before |-> NoCollection, points0 |-> 0, prev |-> NoAdminPrev,
            in |-> NoInput, out |-> NoOutput]

\* an empty collection (EnsureCollection has run), no archive file, no call
StoreStart ==
    /\ collection = Collection(VectorSize)
    /\ admin = NoAdmin
    /\ points = {}
    /\ archive = << >>
    /\ uuids = 0
    /\ sq = [c \in Callers |-> NoCall]
    /\ nCalls = 0
    /\ nFaults = 0
    /\ reindex = NoReindex
    /\ LoggerStart

\* the streaming session after InitialModel: no session, no channel, no goroutine
(***************************************************************************)
(* The settings: package config (src/internal/config/config.go) and the    *)
(* fields of Model the options screen changes.                             *)
(***************************************************************************)
defaultAPIURL == "http://localhost:11434"
defaultModel == "gemma3:1b"
Tenth == 1000                  \* 0.1, the step of the temperature
defaultTemp == 15 * Tenth      \* 1.5
TempMin == Tenth               \* 0.1
TempMax == 20 * Tenth          \* 2.0
NumOptions == 6                \* len(m.Options)
TemperatureOpt == 1            \* the index of the temperature option

NoEnviron == [OLLAMA_API_URL |-> "", OLLAMA_MODEL |-> ""]
Environs == {NoEnviron, [OLLAMA_API_URL |-> "http://ollama:11434", OLLAMA_MODEL |-> ""]}

\* config.APIURL(): the environment variable, else the default
APIURL == IF environ.OLLAMA_API_URL # "" THEN environ.OLLAMA_API_URL ELSE defaultAPIURL
\* config.Model()
Model == IF environ.OLLAMA_MODEL # "" THEN environ.OLLAMA_MODEL ELSE defaultModel

\* the Config SaveConfig writes
Config(modelName, temperature, apiURL) ==
    [model_name |-> modelName, temperature |-> temperature, api_url |-> apiURL]
NoConfig == Config("", 0, "")

\* StartStreamCmdWithCallback(config.APIURL(), m.ModelName, question, m.Temperature, ...)
Request == [url |-> APIURL, model |-> ModelName, temperature |-> Temperature]
NoRequest == [url |-> "", model |-> "", temperature |-> 0]

NoOptEnv == [keys |-> 0, edits |-> 0]
\* no settings file, nothing requested, no key pressed
OptionsIdle ==
    /\ config = NoConfig
    /\ request = NoRequest
    /\ nKeys = 0 /\ nEdits = 0

SessionStart ==
    /\ ScreenMode = "chat"
    /\ SelectedOpt = 0
    /\ ModelName = Model
    /\ Temperature = defaultTemp
    /\ EditingModel = FALSE /\ EditingAPIURL = FALSE
    /\ ModelInput = "" /\ APIURLInput = ""
    /\ phase = "running" /\ panic = ""
    /\ TextInput = ""
    /\ Msg = EmptyMsg
    /\ LastQuestion = ""
    /\ Streaming = FALSE
    /\ StreamCh = Nil /\ ErrCh = Nil /\ StopCh = Nil
    /\ cpc = "idle" /\ afterClose = "none"
    /\ nSessions = 0
    /\ outCh = [c \in ChanIds |-> NewChan]
    /\ errCh = [c \in ChanIds |-> NewChan]
    /\ stopCh = [c \in ChanIds |-> FALSE]
    /\ respCh = [s \in Sessions |-> NewChan]
    /\ prod = [s \in Sessions |-> NoProd]
    /\ emitted = [s \in Sessions |-> 0]
    /\ fullSender = [s \in Sessions |-> NoSender]
    /\ cmds = EmptyBag
    /\ inbox = EmptyBag
    /\ save = [s \in Sessions |-> NoSave]
    /\ storeCalls = << >>
    /\ hist = [s \in Sessions |-> NoHist]

\* The state after InitialModel.  The environment of the run is chosen here: a
\* single session with a few chunks, several sessions, or a single session long
\* enough to fill the token channel.
Init ==
    /\ variant \in {"A", "B"}
    /\ \/ chunkLimit = MaxChunks /\ sessLimit = 1
       \/ chunkLimit = MaxMultiChunks /\ sessLimit = MaxSessions
       \/ chunkLimit = StreamCap + 2 /\ sessLimit = 1
    /\ environ = NoEnviron /\ optEnv = NoOptEnv
    /\ OptionsIdle
    /\ SessionStart
    /\ storeEnv = NoStoreEnv
    /\ StoreStart

Running == phase = "running"
ConsumerIdle == Running /\ cpc = "idle"
\* handleKeyMsg reaches the chat key bindings: not the options screen, no edit
InChat == ScreenMode = "chat" /\ ~EditingModel /\ ~EditingAPIURL

One(x) == SetToBag({x})
Ev(s, e) == [hist EXCEPT ![s].events = Append(@, e)]

\* The process ends (tea.Quit, or an unrecovered panic): its memory, goroutines
\* and channels are gone.  What it wrote through StoreQA stays.
Exit(ph, why) ==
    /\ phase' = ph /\ panic' = why
    /\ TextInput' = "" /\ Msg' = EmptyMsg /\ LastQuestion' = ""
    /\ Streaming' = FALSE
    /\ StreamCh' = Nil /\ ErrCh' = Nil /\ StopCh' = Nil
    /\ cpc' = "idle" /\ afterClose' = "none"
    /\ nSessions' = 0
    /\ outCh' = [c \in ChanIds |-> NewChan]
    /\ errCh' = [c \in ChanIds |-> NewChan]
    /\ stopCh' = [c \in ChanIds |-> FALSE]
    /\ respCh' = [s \in Sessions |-> NewChan]
    /\ prod' = [s \in Sessions |-> NoProd]
    /\ fullSender' = [s \in Sessions |-> NoSender]
    /\ cmds' = EmptyBag
    /\ inbox' = EmptyBag
    /\ save' = [s \in Sessions |-> NoSave]

DoubleClose == "close of closed channel"
SendOnClosed == "send on closed channel"

(***************************************************************************)
(* The consumer: Model.Update and the handlers it calls.  Every handler    *)
(* runs on the single Bubble Tea goroutine.  safeCloseChannels closes      *)
(* three channels one after the other; each close is one step, because a   *)
(* producer goroutine can run between two of them.                         *)
(***************************************************************************)

\* tea.KeyRunes / tea.KeyBackspace: the text input changes
KeyRunes ==
    /\ ConsumerIdle /\ InChat
    /\ \E v \in Questions : v # TextInput /\ TextInput' = v
    /\ UNCHANGED <<envVars, exitVars, Msg, LastQuestion, Streaming, StreamCh, ErrCh,
                   StopCh, cpc, afterClose, nSessions, outCh, errCh, stopCh, respCh,
                   prod, fullSender, cmds, inbox, save, keptVars, hist>>

\* ensureChannels: a nil field gets a new channel, a non-nil field is kept
ensureChannels(field, fresh) == IF field = Nil THEN fresh ELSE field

\* handleChatInput with a non-empty question: the session s starts
handleChatInput(s, question) ==
    LET out == ensureChannels(StreamCh, s)
        ec  == ensureChannels(ErrCh, s)
        sc  == ensureChannels(StopCh, s)
    IN  /\ LastQuestion' = question
        /\ Msg' = EmptyMsg
        /\ StreamCh' = out /\ ErrCh' = ec /\ StopCh' = sc
        /\ Streaming' = TRUE
        /\ nSessions' = s
        /\ prod' = [prod EXCEPT ![s] = [NoProd EXCEPT !.pc = "call", !.out = out,
                                                      !.errCh = ec, !.stop = sc]]
        /\ cmds' = cmds (+) One([ch |-> out, errCh |-> ec])
        /\ save' = [save EXCEPT ![s] = [st |-> "waiting", q |-> question,
                                         got |-> EmptyText]]
        /\ request' = Request
        /\ UNCHANGED <<runVars, exitVars, TextInput, cpc, afterClose, outCh, errCh,
                       stopCh, respCh, fullSender, inbox, keptVars, hist>>

\* Bound of the model: the user submits the next question only after the
\* goroutines of the earlier sessions have taken the steps they can take without
\* the service or the consumer (a producer is inside ChatStream, blocked, or has
\* exited; saveCmd and the sendFullResponse goroutine are blocked or have exited).
Settled ==
    \A s \in Sessions :
        /\ prod[s].pc \in {"none", "call", "done"}
        /\ fullSender[s].st = "pending"
              => (~respCh[s].closed /\ ~HasRoom(respCh[s], RespCap))
        /\ save[s].st = "waiting" => ~CanRecv(respCh[s])

\* KeyEnter without the test of m.Streaming: every Enter with a question submits
KeyEnter_IgnoresStreaming ==
    /\ ConsumerIdle /\ InChat
    /\ IF TextInput # ""
       THEN /\ nSessions < sessLimit
            /\ Settled
            /\ handleChatInput(nSessions + 1, TextInput)
       ELSE UNCHANGED vars

\* tea.KeyEnter in chat mode
KeyEnter ==
    /\ ConsumerIdle /\ InChat
    /\ IF ~Streaming /\ TextInput # ""
       THEN /\ nSessions < sessLimit
            /\ Settled
            /\ handleChatInput(nSessions + 1, TextInput)
       ELSE UNCHANGED vars

\* safeCloseChannels begins (the caller has set what follows it)
BeginClose(then) == cpc' = "closeStop" /\ afterClose' = then

\* tea.KeyEsc in chat mode: stopStreaming while Streaming, tea.Quit otherwise
KeyEsc ==
    /\ ConsumerIdle /\ InChat
    /\ IF Streaming
       THEN /\ Streaming' = FALSE
            /\ BeginClose("clearMsg")
            /\ hist' = Ev(nSessions, "Canceled")
            /\ UNCHANGED <<envVars, exitVars, TextInput, Msg, LastQuestion, StreamCh,
                           ErrCh, StopCh, nSessions, outCh, errCh, stopCh, respCh,
                           prod, fullSender, cmds, inbox, save, keptVars>>
       ELSE /\ Exit("quit", "")
            /\ UNCHANGED <<envVars, keptVars, hist>>

\* tea.KeyCtrlW: safeCloseChannels, then tea.Quit.  The program exits right after
\* the three closes, so they are taken as one step.
KeyCtrlW ==
    /\ ConsumerIdle /\ InChat
    /\ IF StreamCh # Nil
       THEN /\ hist' = [hist EXCEPT ![StreamCh].outCloses = Append(@, "consumer")]
            /\ IF outCh[StreamCh].closed
               THEN Exit("crashed", DoubleClose)
               ELSE Exit("quit", "")
       ELSE /\ Exit("quit", "")
            /\ UNCHANGED hist
    /\ UNCHANGED <<envVars, keptVars>>

\* safeClose without *ch = nil: the field keeps the closed stop channel
CloseStop_KeepsField ==
    /\ Running /\ cpc = "closeStop"
    /\ stopCh' = IF StopCh # Nil THEN [stopCh EXCEPT ![StopCh] = TRUE] ELSE stopCh
    /\ cpc' = "closeErr"
    /\ UNCHANGED <<envVars, exitVars, TextInput, Msg, LastQuestion, Streaming,
                   StreamCh, ErrCh, StopCh, afterClose, nSessions, outCh, errCh,
                   respCh, prod, fullSender, cmds, inbox, save, keptVars, hist>>

\* safeClose(&m.StopCh): only the consumer closes the stop channel, and it sets
\* the field to nil right after, so the channel of a non-nil field is open
CloseStop ==
    /\ Running /\ cpc = "closeStop"
    /\ stopCh' = IF StopCh # Nil THEN [stopCh EXCEPT ![StopCh] = TRUE] ELSE stopCh
    /\ StopCh' = Nil
    /\ cpc' = "closeErr"
    /\ UNCHANGED <<envVars, exitVars, TextInput, Msg, LastQuestion, Streaming,
                   StreamCh, ErrCh, afterClose, nSessions, outCh, errCh, respCh,
                   prod, fullSender, cmds, inbox, save, keptVars, hist>>

\* safeCloseErrCh without *ch = nil: the field keeps the closed channel
CloseErr_KeepsField ==
    /\ Running /\ cpc = "closeErr"
    /\ errCh' = IF ErrCh # Nil THEN [errCh EXCEPT ![ErrCh].closed = TRUE] ELSE errCh
    /\ cpc' = "closeStream"
    /\ UNCHANGED <<envVars, exitVars, TextInput, Msg, LastQuestion, Streaming,
                   StreamCh, ErrCh, StopCh, afterClose, nSessions, outCh, stopCh,
                   respCh, prod, fullSender, cmds, inbox, save, keptVars, hist>>

\* safeCloseErrCh(&m.ErrCh): as for the stop channel
CloseErr ==
    /\ Running /\ cpc = "closeErr"
    /\ errCh' = IF ErrCh # Nil THEN [errCh EXCEPT ![ErrCh].closed = TRUE] ELSE errCh
    /\ ErrCh' = Nil
    /\ cpc' = "closeStream"
    /\ UNCHANGED <<envVars, exitVars, TextInput, Msg, LastQuestion, Streaming,
                   StreamCh, StopCh, afterClose, nSessions, outCh, stopCh, respCh,
                   prod, fullSender, cmds, inbox, save, keptVars, hist>>

\* what the handler does after safeCloseChannels returned
FinishClose ==
    /\ cpc' = "idle"
    /\ afterClose' = "none"
    /\ Msg' = IF afterClose = "clearMsg" THEN EmptyMsg ELSE Msg

\* if m.StreamCh != nil { close(m.StreamCh); m.StreamCh = nil }
\* close of a closed channel panics on the Update goroutine: the program ends
CloseStream ==
    /\ Running /\ cpc = "closeStream"
    /\ IF StreamCh = Nil
       THEN /\ FinishClose
            /\ UNCHANGED <<exitVars, TextInput, LastQuestion, Streaming, StreamCh,
                           ErrCh, StopCh, nSessions, outCh, errCh, stopCh, respCh,
                           prod, fullSender, cmds, inbox, save, hist>>
       ELSE /\ hist' = [hist EXCEPT ![StreamCh].outCloses = Append(@, "consumer")]
            /\ IF outCh[StreamCh].closed
               THEN Exit("crashed", DoubleClose)
               ELSE /\ outCh' = [outCh EXCEPT ![StreamCh].closed = TRUE]
                    /\ StreamCh' = Nil
                    /\ FinishClose
                    /\ UNCHANGED <<exitVars, TextInput, LastQuestion, Streaming,
                                   ErrCh, StopCh, nSessions, errCh, stopCh, respCh,
                                   prod, fullSender, cmds, inbox, save>>
    /\ UNCHANGED <<envVars, keptVars>>

\* handleStreamError up to its call of safeCloseChannels
handleStreamError ==
    /\ Streaming' = FALSE
    /\ IF ErrCh # Nil /\ errCh[ErrCh].buf # << >>
       THEN /\ Msg' = ErrorMsg("Error: " \o Head(errCh[ErrCh].buf))
            /\ errCh' = [errCh EXCEPT ![ErrCh].buf = Tail(@)]
       ELSE /\ Msg' = ErrorMsg(UnknownError)
            /\ UNCHANGED errCh
    /\ BeginClose("none")

\* Model.Update(msg) for a message a command produced
Update(msg) ==
    /\ ConsumerIdle
    /\ BagIn(msg, inbox)
    /\ inbox' = inbox (-) One(msg)
    /\ CASE msg.type = "Token" ->
              /\ Msg' = [Msg EXCEPT !.toks = @ \o msg.tok]
              /\ cmds' = IF StreamCh # Nil /\ ErrCh # Nil
                         THEN cmds (+) One([ch |-> StreamCh, errCh |-> ErrCh])
                         ELSE cmds
              /\ hist' = [hist EXCEPT ![msg.src].observed = Append(@, msg.tok)]
              /\ UNCHANGED <<Streaming, cpc, afterClose, errCh>>
         [] msg.type = "End" ->
              /\ Streaming' = FALSE
              /\ BeginClose("none")
              /\ hist' = Ev(msg.src, "Completed")
              /\ UNCHANGED <<Msg, cmds, errCh>>
         [] msg.type = "Err" ->
              /\ handleStreamError
              /\ hist' = Ev(msg.src, "Errored")
              /\ UNCHANGED cmds
         [] OTHER -> \* io.EOF: no case of Update handles it
              UNCHANGED <<Msg, cmds, hist, Streaming, cpc, afterClose, errCh>>
    /\ UNCHANGED <<envVars, exitVars, TextInput, LastQuestion, StreamCh, ErrCh, StopCh,
                   nSessions, outCh, stopCh, respCh, prod, fullSender, save,
                   keptVars>>

UpdateMsg == \E msg \in BagToSet(inbox) : Update(msg)

(***************************************************************************)
(* NextTokenCmd: one receive from the error channel or the token channel.  *)
(* A receive on a closed, drained channel yields the zero value.           *)
(***************************************************************************)
TokenMsg(tok, src) == [type |-> "Token", tok |-> tok, err |-> "nil", src |-> src]
StreamEndMsg(src) == [type |-> "End", tok |-> EmptyText, err |-> "nil", src |-> src]
StreamErrMsg(e, src) == [type |-> "Err", tok |-> EmptyText, err |-> e, src |-> src]
EOFMsg(src) == [type |-> "EOF", tok |-> EmptyText, err |-> "nil", src |-> src]

\* case err := <-errCh, with err the received value ("nil" from a closed channel)
A_ErrCase(e, src) == IF e # "nil" THEN StreamErrMsg(e, src) ELSE StreamEndMsg(src)
B_ErrCase(e, src) == IF e # "nil" THEN StreamErrMsg(e, src) ELSE EOFMsg(src)
ErrCaseMsg(v, e, src) == IF v = "A" THEN A_ErrCase(e, src) ELSE B_ErrCase(e, src)

\* case s, ok := <-ch
A_TokenCase(tok, ok, src) == IF ~ok THEN StreamEndMsg(src) ELSE TokenMsg(tok, src)
B_TokenCase(tok, ok, src) ==
    IF ~ok THEN StreamEndMsg(src)
    ELSE IF tok = EmptyText THEN StreamEndMsg(src)
    ELSE TokenMsg(tok, src)
TokenCaseMsg(v, tok, ok, src) ==
    IF v = "A" THEN A_TokenCase(tok, ok, src) ELSE B_TokenCase(tok, ok, src)

NextTokenCmd(c) ==
    /\ Running
    /\ BagIn(c, cmds)
    /\ cmds' = cmds (-) One(c)
    /\ \/ /\ CanRecv(errCh[c.errCh])
          /\ IF errCh[c.errCh].buf # << >>
             THEN /\ inbox' = inbox (+) One(ErrCaseMsg(variant, Head(errCh[c.errCh].buf), c.ch))
                  /\ errCh' = [errCh EXCEPT ![c.errCh].buf = Tail(@)]
             ELSE /\ inbox' = inbox (+) One(ErrCaseMsg(variant, "nil", c.ch))
                  /\ UNCHANGED errCh
          /\ UNCHANGED outCh
       \/ /\ CanRecv(outCh[c.ch])
          /\ IF outCh[c.ch].buf # << >>
             THEN /\ inbox' = inbox (+) One(TokenCaseMsg(variant, Head(outCh[c.ch].buf), TRUE, c.ch))
                  /\ outCh' = [outCh EXCEPT ![c.ch].buf = Tail(@)]
             ELSE /\ inbox' = inbox (+) One(TokenCaseMsg(variant, EmptyText, FALSE, c.ch))
                  /\ UNCHANGED outCh
          /\ UNCHANGED errCh
    /\ UNCHANGED <<envVars, exitVars, consumerVars, stopCh, respCh, prod, fullSender,
                   save, keptVars, hist>>

NextToken == \E c \in BagToSet(cmds) : NextTokenCmd(c)

(***************************************************************************)
(* saveCmd: one receive from the full-response channel, then Model.StoreQA *)
(* when the received text is not empty.                                    *)
(***************************************************************************)
saveCmd(s) ==
    /\ Running
    /\ save[s].st = "waiting"
    /\ CanRecv(respCh[s])
    /\ LET fullResponse == IF respCh[s].buf # << >> THEN Head(respCh[s].buf)
                           ELSE EmptyText
       IN  /\ respCh' = [respCh EXCEPT ![s].buf = IF @ # << >> THEN Tail(@) ELSE @]
           /\ save' = [save EXCEPT ![s].st = "done", ![s].got = fullResponse]
           /\ storeCalls' = IF fullResponse # EmptyText
                            THEN Append(storeCalls, [sess |-> s, q |-> save[s].q,
                                                     a |-> fullResponse])
                            ELSE storeCalls
    /\ UNCHANGED <<envVars, exitVars, consumerVars, outCh, errCh, stopCh, prod,
                   emitted, fullSender, cmds, inbox, hist>>

SaveStep == \E s \in Sessions : saveCmd(s)

(***************************************************************************)
(* The producer goroutine of startStreamCmdWithCallback.                   *)
(*   pc = "call": completion.ChatStream is running; it invokes the         *)
(*   callback once per chunk and returns nil, an error of the service, or  *)
(*   the error the callback returned.                                      *)
(***************************************************************************)
\* non-empty chunks the service has sent so far, over all sessions
RECURSIVE ChunksSent(_)
ChunksSent(S) ==
    IF S = {} THEN 0
    ELSE LET s == CHOOSE x \in S : TRUE IN emitted[s] + ChunksSent(S \ {s})
MoreChunks == ChunksSent(Sessions) < chunkLimit

Terminal(s) == hist[s].events # << >>

\* the goroutine is over; exit is "return", "panic" (recovered) or "deadlock"
Done(exit) == [NoProd EXCEPT !.pc = "done", !.exit = exit]

\* history of a send the producer of s attempts
NoteSend(h, s) == [h EXCEPT ![s].lateSend = @ \/ Terminal(s)]
\* history of a chunk that entered the token channel (stopped: the stop channel
\* was closed already)
NotePush(h, s, tok, stopped) ==
    [NoteSend(h, s) EXCEPT ![s].pushed = Append(@, tok), ![s].stopPush = @ \/ stopped]
\* history of an error that entered the error channel
NoteErr(h, s) == [NoteSend(h, s) EXCEPT ![s].errSent = @ + 1]
\* history of the return of completion.ChatStream
NoteRet(h, s, e) == [h EXCEPT ![s].ret = e]

\* ---- variant A (src/unnamed/part_004) ----

\* the callback returns errors.New("stream canceled") and ChatStream returns it; the
\* stop channel is closed, so the select before sendFullResponse takes <-stopCh
Canceled(s) == [prod EXCEPT ![s].pc = "a_err", ![s].err = "stream canceled"]

\* the callback is invoked with a chunk: the stop check, then fullResponse.WriteString
A_Callback(s, empty) ==
    LET p == prod[s] IN
    /\ variant = "A" /\ Running /\ p.pc = "call"
    /\ IF stopCh[p.stop]
       THEN /\ prod' = Canceled(s)
            /\ hist' = NoteRet(hist, s, "stream canceled")
            /\ UNCHANGED emitted
       ELSE IF empty
            THEN UNCHANGED <<prod, emitted, hist>>
            ELSE /\ MoreChunks
                 /\ emitted' = [emitted EXCEPT ![s] = @ + 1]
                 /\ prod' = [prod EXCEPT ![s].pc = "cb_resp",
                                         ![s].cur = Chunk(emitted[s] + 1),
                                         ![s].full = @ \o Chunk(emitted[s] + 1)]
                 /\ UNCHANGED hist
    /\ UNCHANGED <<envVars, exitVars, consumerVars, outCh, errCh, stopCh, respCh,
                   fullSender, cmds, inbox, save, storeCalls>>

\* select { case <-stopCh: ...; case localResponseCh <- s: }
A_SendResp(s) ==
    LET p == prod[s] IN
    /\ variant = "A" /\ Running /\ p.pc = "cb_resp"
    /\ \/ /\ stopCh[p.stop]
          /\ prod' = Canceled(s)
          /\ hist' = NoteRet(hist, s, "stream canceled")
          /\ UNCHANGED respCh
       \/ /\ HasRoom(respCh[s], RespCap)   \* only this goroutine closes respCh
          /\ respCh' = [respCh EXCEPT ![s].buf = Append(@, p.cur)]
          /\ prod' = [prod EXCEPT ![s].pc = "cb_out"]
          /\ hist' = NoteSend(hist, s)
    /\ UNCHANGED <<envVars, exitVars, consumerVars, outCh, errCh, stopCh, fullSender,
                   cmds, inbox, save, keptVars>>

\* select { case <-stopCh: ...; case localOut <- s: }
A_SendOut(s) ==
    LET p == prod[s] IN
    /\ variant = "A" /\ Running /\ p.pc = "cb_out"
    /\ \/ /\ stopCh[p.stop]
          /\ prod' = Canceled(s)
          /\ hist' = NoteRet(hist, s, "stream canceled")
          /\ UNCHANGED outCh
       \/ /\ outCh[p.out].closed    \* send on a closed channel: panic, recovered
          /\ prod' = [prod EXCEPT ![s] = Done("panic")]
          /\ hist' = NoteSend(hist, s)
          /\ UNCHANGED outCh
       \/ /\ ~outCh[p.out].closed /\ HasRoom(outCh[p.out], StreamCap)
          /\ outCh' = [outCh EXCEPT ![p.out].buf = Append(@, p.cur)]
          /\ prod' = [prod EXCEPT ![s].pc = "call", ![s].cur = EmptyText]
          /\ hist' = NotePush(hist, s, p.cur, stopCh[p.stop])
    /\ UNCHANGED <<envVars, exitVars, consumerVars, errCh, stopCh, respCh, fullSender,
                   cmds, inbox, save, keptVars>>

\* completion.ChatStream returns by itself (e = "nil": no error), then
\* select { case <-stopCh: default: sendFullResponse(...) }
A_Return(s, e) ==
    LET p == prod[s] IN
    /\ variant = "A" /\ Running /\ p.pc = "call"
    /\ fullSender' = IF stopCh[p.stop] THEN fullSender
                     ELSE [fullSender EXCEPT ![s] = [st |-> "pending", val |-> p.full]]
    /\ prod' = [prod EXCEPT ![s].pc = IF e = "nil" THEN "a_close" ELSE "a_err",
                            ![s].err = e, ![s].full = EmptyText]
    /\ hist' = NoteRet(hist, s, e)
    /\ UNCHANGED <<envVars, exitVars, consumerVars, outCh, errCh, stopCh, respCh,
                   cmds, inbox, save, keptVars>>

\* the goroutine of sendFullResponse: ch <- response, a panic is recovered
A_FullSender(s) ==
    /\ variant = "A" /\ Running /\ fullSender[s].st = "pending"
    /\ \/ /\ respCh[s].closed
          /\ fullSender' = [fullSender EXCEPT ![s] = [NoSender EXCEPT !.st = "panicked"]]
          /\ UNCHANGED respCh
       \/ /\ ~respCh[s].closed /\ HasRoom(respCh[s], RespCap)
          /\ respCh' = [respCh EXCEPT ![s].buf = Append(@, fullSender[s].val)]
          /\ fullSender' = [fullSender EXCEPT ![s] = [NoSender EXCEPT !.st = "sent"]]
    /\ hist' = NoteSend(hist, s)
    /\ UNCHANGED <<envVars, exitVars, consumerVars, outCh, errCh, stopCh, prod, cmds,
                   inbox, save, keptVars>>

\* if err != nil { select { case <-stopCh: case localErrCh <- err: } }
A_Err(s) ==
    LET p == prod[s] IN
    /\ variant = "A" /\ Running /\ p.pc = "a_err"
    /\ \/ /\ stopCh[p.stop]
          /\ prod' = [prod EXCEPT ![s].pc = "a_close", ![s].err = "nil"]
          /\ UNCHANGED <<errCh, hist>>
       \/ /\ errCh[p.errCh].closed    \* panic, recovered
          /\ prod' = [prod EXCEPT ![s] = Done("panic")]
          /\ hist' = NoteSend(hist, s)
          /\ UNCHANGED errCh
       \/ /\ ~errCh[p.errCh].closed /\ HasRoom(errCh[p.errCh], ErrCap)
          /\ errCh' = [errCh EXCEPT ![p.errCh].buf = Append(@, p.err)]
          /\ prod' = [prod EXCEPT ![s].pc = "a_close", ![s].err = "nil"]
          /\ hist' = NoteErr(hist, s)
    /\ UNCHANGED <<envVars, exitVars, consumerVars, outCh, stopCh, respCh, fullSender,
                   cmds, inbox, save, keptVars>>

\* close(localOut) then close(localResponseCh); close of a closed channel panics
\* (recovered) and the response channel stays open
A_Close(s) ==
    LET p == prod[s] IN
    /\ variant = "A" /\ Running /\ p.pc = "a_close"
    /\ hist' = [hist EXCEPT ![p.out].outCloses = Append(@, "producer")]
    /\ IF outCh[p.out].closed
       THEN /\ prod' = [prod EXCEPT ![s] = Done("panic")]
            /\ UNCHANGED <<outCh, respCh>>
       ELSE /\ outCh' = [outCh EXCEPT ![p.out].closed = TRUE]
            /\ respCh' = [respCh EXCEPT ![s].closed = TRUE]
            /\ prod' = [prod EXCEPT ![s] = Done("return")]
    /\ UNCHANGED <<envVars, exitVars, consumerVars, errCh, stopCh, fullSender,
                   cmds, inbox, save, keptVars>>

ProducerA ==
    \E s \in Sessions :
        \/ \E empty \in BOOLEAN : A_Callback(s, empty)
        \/ A_SendResp(s)
        \/ A_SendOut(s)
        \/ \E e \in {"nil", "service error"} : A_Return(s, e)
        \/ A_FullSender(s)
        \/ A_Err(s)
        \/ A_Close(s)

\* ---- variant B (package llm in src/internal/logger/file_logger.go) ----
\* ctx is canceled only by the deferred cancel(), so ctx.Done() is never ready
\* while the goroutine body runs; the stop channel is not read.

\* safeSendString(out, data): select { case ch <- data: case <-ctx.Done(): default: }
\* "panic" | "sent" | "skipped"
safeSendString(c) ==
    IF c.closed THEN "panic"
    ELSE IF HasRoom(c, StreamCap) THEN "sent"
    ELSE "skipped"

\* the callback is invoked with a chunk
B_Callback(s, empty) ==
    LET p == prod[s]
        tok == Chunk(emitted[s] + 1)
        r == safeSendString(outCh[p.out])
    IN
    /\ variant = "B" /\ Running /\ p.pc = "call"
    /\ IF empty
       THEN UNCHANGED <<prod, emitted, outCh, hist>>
       ELSE /\ MoreChunks
            /\ emitted' = [emitted EXCEPT ![s] = @ + 1]
            /\ prod' = [prod EXCEPT ![s].full = @ \o tok,
                                    ![s].pc = IF r = "panic" THEN "b_panic" ELSE @]
            /\ outCh' = IF r = "sent" THEN [outCh EXCEPT ![p.out].buf = Append(@, tok)]
                        ELSE outCh
            /\ hist' = IF r = "sent" THEN NotePush(hist, s, tok, stopCh[p.stop])
                       ELSE NoteSend(hist, s)
    /\ UNCHANGED <<envVars, exitVars, consumerVars, errCh, stopCh, respCh, fullSender,
                   cmds, inbox, save, storeCalls>>

\* completion.ChatStream returns (e = "nil": no error).  With an error: the error
\* goes to errCh (non-blocking) and the goroutine returns.  Without: a non-empty
\* text goes to sendFullResponse(ctx, ...).  Then the deferred function runs
\* cancel() and close(responseCh).
B_Return(s, e) ==
    LET p == prod[s] IN
    /\ variant = "B" /\ Running /\ p.pc = "call"
    /\ IF e # "nil"
       THEN IF errCh[p.errCh].closed
            THEN /\ prod' = [prod EXCEPT ![s].pc = "b_panic"]
                 /\ hist' = NoteSend(NoteRet(hist, s, e), s)
                 /\ UNCHANGED <<errCh, respCh>>
            ELSE /\ errCh' = IF HasRoom(errCh[p.errCh], ErrCap)
                             THEN [errCh EXCEPT ![p.errCh].buf = Append(@, e)]
                             ELSE errCh
                 /\ hist' = IF HasRoom(errCh[p.errCh], ErrCap)
                            THEN NoteErr(NoteRet(hist, s, e), s)
                            ELSE NoteSend(NoteRet(hist, s, e), s)
                 /\ respCh' = [respCh EXCEPT ![s].closed = TRUE]
                 /\ prod' = [prod EXCEPT ![s] = Done("return")]
       ELSE /\ respCh' = [respCh EXCEPT
                              ![s].buf = IF p.full # EmptyText THEN Append(@, p.full)
                                         ELSE @,
                              ![s].closed = TRUE]
            /\ hist' = IF p.full # EmptyText THEN NoteSend(NoteRet(hist, s, e), s)
                       ELSE NoteRet(hist, s, e)
            /\ prod' = [prod EXCEPT ![s] = Done("return")]
            /\ UNCHANGED errCh
    /\ UNCHANGED <<envVars, exitVars, consumerVars, outCh, stopCh, fullSender, cmds,
                   inbox, save, keptVars>>

\* the deferred function after a panic: cancel(), recover(), responseMutex.Lock(),
\* the panic goes to errCh (non-blocking; a closed errCh panics again, and that
\* panic is not recovered), then responseMutex.Lock() a second time with the
\* first lock still held: the goroutine blocks for ever
B_DeferPanic(s) ==
    LET p == prod[s] IN
    /\ variant = "B" /\ Running /\ p.pc = "b_panic"
    /\ IF errCh[p.errCh].closed
       THEN /\ hist' = NoteSend(hist, s)
            /\ Exit("crashed", SendOnClosed)
       ELSE /\ errCh' = IF HasRoom(errCh[p.errCh], ErrCap)
                        THEN [errCh EXCEPT ![p.errCh].buf = Append(@, "stream panic")]
                        ELSE errCh
            /\ hist' = IF HasRoom(errCh[p.errCh], ErrCap)
                       THEN NoteErr(hist, s) ELSE NoteSend(hist, s)
            /\ prod' = [prod EXCEPT ![s] = Done("deadlock")]
            /\ UNCHANGED <<exitVars, consumerVars, outCh, stopCh, respCh, fullSender,
                           cmds, inbox, save>>
    /\ UNCHANGED <<envVars, keptVars>>

ProducerB ==
    \E s \in Sessions :
        \/ \E empty \in BOOLEAN : B_Callback(s, empty)
        \/ \E e \in {"nil", "service error"} : B_Return(s, e)
        \/ B_DeferPanic(s)

Next ==
    \/ KeyRunes
    \/ KeyEnter
    \/ KeyEsc
    \/ KeyCtrlW
    \/ CloseStop
    \/ CloseErr
    \/ CloseStream
    \/ UpdateMsg
    \/ NextToken
    \/ SaveStep
    \/ ProducerA
    \/ ProducerB

Spec == Init /\ [][Next]_vars

(***************************************************************************)
(* The Model.StoreQA calls.                                                *)
(***************************************************************************)
\* The environments of the store: one caller with failing services, one caller
\* and many answers to one question, or several callers at once.
StoreInit ==
    /\ storeEnv \in StoreEnvs
    /\ StoreStart
    /\ variant = "A" /\ chunkLimit = 0 /\ sessLimit = 0
    /\ environ = NoEnviron /\ optEnv = NoOptEnv
    /\ OptionsIdle
    /\ SessionStart

\* a failure is within the environment's budget
MayFail(n) == nFaults + n <= storeEnv.faultLimit
Failures(ops) == Cardinality({i \in 1..Len(ops) : ~ops[i].ok})
\* the points service refuses a vector whose length is not the collection's
Accepts(v) == v.len = collection.size
\* the search of QAExists gets the embedding as Embed returned it
Refused(q, embedOk) == embedOk /\ ~Accepts(Embedding(q))

\* the answers are numbered in the order they first reach the store
KnownAnswers == {p.payload.answer : p \in points}
NextAnswers ==
    {AText(i) : i \in 1..Min(storeEnv.answers, Cardinality(KnownAnswers) + 1)}

\* Model.StoreQA(q, a) is called; m.VectorStore is non-nil (main passes the
\* store NewVectorStore returned)
StartStoreQA ==
    /\ \E c \in Callers, i \in 1..storeEnv.questions, a \in NextAnswers :
          /\ c <= storeEnv.callers
          /\ sq[c].pc \in {"idle", "done"}
          /\ nCalls < storeEnv.callLimit
          /\ sq' = [sq EXCEPT ![c] =
                       [NoCall EXCEPT !.pc = "exists", !.q = QText(i), !.a = a,
                                      !.points0 = Cardinality(points),
                                      !.arch0 = Len(archive),
                                      !.prev = Summary(sq[c])]]
    /\ nCalls' = nCalls + 1
    /\ UNCHANGED <<sessionVars, optVars, logVars, reindex, collVars, storeEnv, points, archive, uuids, nFaults>>

\* exists, err := m.VectorStore.QAExists(question, answer): an error is dropped
\* and the call goes on; a found pair ends the call with nil
CheckExists ==
    /\ \E c \in Callers, embedOk \in BOOLEAN, searchOk \in BOOLEAN :
          /\ sq[c].pc = "exists"
          /\ \E H \in Search(Embedding(sq[c].q)) :
                LET r == QAExists(sq[c].q, sq[c].a, embedOk, searchOk, H)
                    n == IF Refused(sq[c].q, embedOk) THEN 0 ELSE Failures(r.ops)
                IN
                /\ Refused(sq[c].q, embedOk) => ~searchOk
                /\ MayFail(n)
                /\ nFaults' = nFaults + n
                /\ sq' = [sq EXCEPT ![c] =
                            IF r.err = "nil" /\ r.exists
                            THEN [Return(@, "nil", r.ops) EXCEPT
                                      !.checks = @ \o Checked(r, H)]
                            ELSE [@ EXCEPT !.pc = "read", !.ops = @ \o r.ops,
                                           !.checks = @ \o Checked(r, H)]]
    /\ UNCHANGED <<sessionVars, optVars, logVars, reindex, collVars, storeEnv, points, archive, uuids, nCalls>>

\* json.Unmarshal that leaves qas.QAs empty
Unmarshal_NoEntries(data) == SubSeq(data, 1, 0)

\* json.Unmarshal(data, &qas): one QA per object of "qas", in the file's order,
\* with the fields of the struct QA
Unmarshal(data) ==
    [i \in 1..Len(data) |->
        [question |-> data[i].question, answer |-> data[i].answer]]

\* json.MarshalIndent(qas, "", "  "): one object per QA, in the slice's order
MarshalIndent(qas) ==
    [i \in 1..Len(qas) |->
        [question |-> qas[i].question, answer |-> qas[i].answer]]

\* Model.StoreQA going on with an empty qas after a failed read of the archive
ReadArchive_IgnoresError ==
    /\ \E c \in Callers, ok \in BOOLEAN :
          /\ sq[c].pc = "read"
          /\ IF ok
             THEN /\ sq' = [sq EXCEPT ![c].pc = "embed_q", ![c].qas = Unmarshal(archive),
                                      ![c].ops = Append(@, Op("read", NoText, TRUE))]
                  /\ UNCHANGED nFaults
             ELSE /\ MayFail(1)
                  /\ nFaults' = nFaults + 1
                  /\ sq' = [sq EXCEPT ![c].pc = "embed_q",
                                      ![c].ops = Append(@, Op("read", NoText, FALSE))]
    /\ UNCHANGED <<sessionVars, optVars, logVars, reindex, collVars, storeEnv, points, archive, uuids, nCalls>>

\* os.MkdirAll, os.Stat, os.ReadFile, json.Unmarshal: qas is the archive's content
ReadArchive ==
    /\ \E c \in Callers,
          err \in {"nil", "failed to create vault directory",
                   "failed to read existing Q&A file",
                   "failed to parse existing Q&A file"} :
          /\ sq[c].pc = "read"
          /\ IF err = "nil"
             THEN /\ sq' = [sq EXCEPT ![c].pc = "embed_q", ![c].qas = Unmarshal(archive),
                                      ![c].ops = Append(@, Op("read", NoText, TRUE))]
                  /\ UNCHANGED nFaults
             ELSE /\ MayFail(1)
                  /\ nFaults' = nFaults + 1
                  /\ sq' = [sq EXCEPT ![c] =
                               Return(@, err, <<Op("read", NoText, FALSE)>>)]
    /\ UNCHANGED <<sessionVars, optVars, logVars, reindex, collVars, storeEnv, points, archive, uuids, nCalls>>

\* questionEmbedding, err := m.VectorStore.Embed(question)
EmbedQuestion ==
    /\ \E c \in Callers, ok \in BOOLEAN :
          /\ sq[c].pc = "embed_q"
          /\ IF ok
             THEN /\ sq' = [sq EXCEPT ![c].pc = "embed_a",
                                      ![c].qEmb = Embedding(sq[c].q),
                                      ![c].ops = Append(@, Op("embed", sq[c].q, TRUE))]
                  /\ UNCHANGED nFaults
             ELSE /\ MayFail(1)
                  /\ nFaults' = nFaults + 1
                  /\ sq' = [sq EXCEPT ![c] =
                               Return(@, "failed to embed question",
                                      <<Op("embed", sq[c].q, FALSE)>>)]
    /\ UNCHANGED <<sessionVars, optVars, logVars, reindex, collVars, storeEnv, points, archive, uuids, nCalls>>

\* answerEmbedding, err := m.VectorStore.Embed(answer)
EmbedAnswer ==
    /\ \E c \in Callers, ok \in BOOLEAN :
          /\ sq[c].pc = "embed_a"
          /\ IF ok
             THEN /\ sq' = [sq EXCEPT ![c].pc = "check",
                                      ![c].aEmb = Embedding(sq[c].a),
                                      ![c].ops = Append(@, Op("embed", sq[c].a, TRUE))]
                  /\ UNCHANGED nFaults
             ELSE /\ MayFail(1)
                  /\ nFaults' = nFaults + 1
                  /\ sq' = [sq EXCEPT ![c] =
                               Return(@, "failed to embed answer",
                                      <<Op("embed", sq[c].a, FALSE)>>)]
    /\ UNCHANGED <<sessionVars, optVars, logVars, reindex, collVars, storeEnv, points, archive, uuids, nCalls>>

\* VectorStore.StoreQA up to its test of exists: QAExists again; an error ends
\* Model.StoreQA with an error, a found pair skips the upsert
StoreCheck ==
    /\ \E c \in Callers, embedOk \in BOOLEAN, searchOk \in BOOLEAN :
          /\ sq[c].pc = "check"
          /\ \E H \in Search(Embedding(sq[c].q)) :
                LET r == QAExists(sq[c].q, sq[c].a, embedOk, searchOk, H)
                    n == IF Refused(sq[c].q, embedOk) THEN 0 ELSE Failures(r.ops)
                IN
                /\ Refused(sq[c].q, embedOk) => ~searchOk
                /\ MayFail(n)
                /\ nFaults' = nFaults + n
                /\ sq' = [sq EXCEPT ![c] =
                            IF r.err # "nil"
                            THEN Return(@, "failed to store Q&A in vector database",
                                        r.ops)
                            ELSE [@ EXCEPT !.pc = IF r.exists THEN "write" ELSE "upsert",
                                           !.ops = @ \o r.ops,
                                           !.checks = @ \o Checked(r, H)]]
    /\ UNCHANGED <<sessionVars, optVars, logVars, reindex, collVars, storeEnv, points, archive, uuids, nCalls>>

\* VectorStore.StoreQA passing answerEmbedding to StoreVector
StoredPoint_AnswerVector(call) == Point(uuids + 2, call.aEmb, call.q, call.a)

\* the point VectorStore.StoreQA stores for the call: uuid.New() is called twice
\* (once for a log line), the second value is the id; the vector is the question's
StoredPoint(call) == Point(uuids + 2, call.qEmb, call.q, call.a)

\* the rest of VectorStore.StoreQA: StoreVector upserts the point (a point with
\* the same id is replaced)
Upsert ==
    /\ \E c \in Callers, ok \in BOOLEAN :
          LET pt == StoredPoint(sq[c]) IN
          /\ sq[c].pc = "upsert"
          /\ ok => Accepts(pt.vector)
          /\ IF ok
             THEN /\ points' = {p \in points : p.id # pt.id} \cup {pt}
                  /\ sq' = [sq EXCEPT ![c].pc = "write",
                                      ![c].ops = Append(@, Op("upsert", pt, TRUE))]
                  /\ UNCHANGED nFaults
             ELSE /\ MayFail(1)
                  /\ nFaults' = nFaults + 1
                  /\ sq' = [sq EXCEPT ![c] =
                               Return(@, "failed to store Q&A in vector database",
                                      <<Op("upsert", pt, FALSE)>>)]
                  /\ UNCHANGED points
    /\ uuids' = uuids + 2
    /\ UNCHANGED <<sessionVars, optVars, logVars, reindex, collVars, storeEnv, archive, nCalls>>

\* the entry Model.StoreQA appends to QAFile.QAs
NewQA(call) == [question |-> call.q, answer |-> call.a]

\* qas.QAs = append(qas.QAs, newQA) and os.WriteFile of the whole file
WriteArchive ==
    /\ \E c \in Callers, ok \in BOOLEAN :
          /\ sq[c].pc = "write"
          /\ IF ok
             THEN /\ archive' = MarshalIndent(Append(sq[c].qas, NewQA(sq[c])))
                  /\ sq' = [sq EXCEPT ![c] =
                               Return(@, "nil", <<Op("write", NoText, TRUE)>>)]
                  /\ UNCHANGED nFaults
             ELSE /\ MayFail(1)
                  /\ nFaults' = nFaults + 1
                  /\ sq' = [sq EXCEPT ![c] =
                               Return(@, "failed to write Q&As to file",
                                      <<Op("write", NoText, FALSE)>>)]
                  /\ UNCHANGED archive
    /\ UNCHANGED <<sessionVars, optVars, logVars, reindex, collVars, storeEnv, points, uuids, nCalls>>

StoreNext ==
    \/ StartStoreQA
    \/ CheckExists
    \/ ReadArchive
    \/ EmbedQuestion
    \/ EmbedAnswer
    \/ StoreCheck
    \/ Upsert
    \/ WriteArchive

StoreSpec == StoreInit /\ [][StoreNext]_vars

(***************************************************************************)
(* Re-indexing: Model.StoreCurrentQuestion (src/internal/ui/model.go), the *)
(* goroutine Ctrl+S and the option "Update Qdrant index" start.  It reads   *)
(* the archive once and calls Model.StoreQA for each entry in turn; the     *)
(* save command of a session may call Model.StoreQA beside it.              *)
(***************************************************************************)
\* the caller slot of the goroutine's Model.StoreQA calls
Indexer == MaxCallers

\* The environments of a re-index: alone, with a failing service or file system,
\* or beside one Model.StoreQA call of a save command.
IndexEnvs ==
    {[name |-> "alone", questions |-> 1, answers |-> 3, callers |-> 1,
      faultLimit |-> 0, callLimit |-> 0, dim |-> VectorSize],
     [name |-> "failing", questions |-> 1, answers |-> 3, callers |-> 1,
      faultLimit |-> 1, callLimit |-> 0, dim |-> VectorSize],
     [name |-> "beside", questions |-> 1, answers |-> 3, callers |-> 1,
      faultLimit |-> 0, callLimit |-> 1, dim |-> VectorSize]}

\* an entry of the archive file
QA(question, answer) == [question |-> question, answer |-> answer]
\* the archive files of the start: up to two entries, archived pairs and an
\* entry whose question is empty
IndexEntries == {QA(QText(1), AText(1)), QA(QText(1), AText(2)), QA(NoText, AText(1))}
Archives == {<< >>} \cup {<<e>> : e \in IndexEntries}
               \cup {<<e, f>> : e \in IndexEntries, f \in IndexEntries}
\* the point the store holds for the archived pair (q1, a_i)
Indexed(i) == Point(2 * i, Embedding(QText(1)), QText(1), AText(i))
Archived(file, i) == \E k \in 1..Len(file) : file[k] = QA(QText(1), AText(i))

\* the archive holds some entries; the store holds the points of some of the
\* archived pairs
ReindexInit ==
    /\ storeEnv \in IndexEnvs
    /\ archive \in Archives
    /\ \E S \in SUBSET {i \in 1..2 : Archived(archive, i)} :
          points = {Indexed(i) : i \in S}
    /\ uuids = 4
    /\ collection = Collection(VectorSize)
    /\ admin = NoAdmin
    /\ sq = [c \in Callers |-> NoCall]
    /\ nCalls = 0
    /\ nFaults = 0
    /\ reindex = NoReindex
    /\ LoggerStart
    /\ variant = "A" /\ chunkLimit = 0 /\ sessLimit = 0
    /\ environ = NoEnviron /\ optEnv = NoOptEnv
    /\ OptionsIdle
    /\ SessionStart

\* go m.StoreCurrentQuestion(): os.Stat, os.ReadFile, json.Unmarshal and the test
\* of len(qaFile.QAs); an absent file is the empty archive
StoreCurrentQuestion ==
    /\ reindex.pc = "none"
    /\ \E ok \in BOOLEAN :
          IF ok
          THEN /\ reindex' = IF Len(Unmarshal(archive)) = 0
                             THEN [reindex EXCEPT !.pc = "done", !.file = archive]
                             ELSE [reindex EXCEPT !.pc = "loop", !.i = 1,
                                                  !.qas = Unmarshal(archive),
                                                  !.file = archive]
               /\ UNCHANGED nFaults
          ELSE /\ archive # << >>
               /\ MayFail(1)
               /\ nFaults' = nFaults + 1
               /\ reindex' = [reindex EXCEPT !.pc = "done", !.file = archive]
    /\ UNCHANGED <<sessionVars, optVars, logVars, collVars, storeEnv, points, archive, uuids,
                   sq, nCalls>>

\* for i, qa := range qaFile.QAs: an entry with an empty question or answer is
\* skipped, any other is passed to m.StoreQA; after the last entry the goroutine ends
Reindex_Next ==
    /\ reindex.pc = "loop"
    /\ IF reindex.i > Len(reindex.qas)
       THEN /\ reindex' = [reindex EXCEPT !.pc = "done", !.qas = << >>]
            /\ UNCHANGED sq
       ELSE LET qa == reindex.qas[reindex.i] IN
            IF qa.question = NoText \/ qa.answer = NoText
            THEN /\ reindex' = [reindex EXCEPT !.i = @ + 1]
                 /\ UNCHANGED sq
            ELSE /\ reindex' = [reindex EXCEPT !.pc = "call"]
                 /\ sq' = [sq EXCEPT ![Indexer] =
                              [NoCall EXCEPT !.pc = "exists", !.q = qa.question,
                                             !.a = qa.answer,
                                             !.points0 = Cardinality(points),
                                             !.arch0 = Len(archive),
                                             !.prev = Summary(sq[Indexer])]]
    /\ UNCHANGED <<sessionVars, optVars, logVars, collVars, storeEnv, points, archive, uuids,
                   nCalls, nFaults>>

\* m.StoreQA returned: an error is logged and the loop goes on, nil is counted
Reindex_Return ==
    /\ reindex.pc = "call"
    /\ sq[Indexer].pc = "done"
    /\ reindex' = [reindex EXCEPT !.pc = "loop", !.i = @ + 1,
                                  !.successCount =
                                      IF sq[Indexer].ret = "nil" THEN @ + 1 ELSE @]
    /\ UNCHANGED <<sessionVars, optVars, logVars, collVars, storeEnv, points, archive, uuids,
                   sq, nCalls, nFaults>>

ReindexNext ==
    \/ StoreCurrentQuestion
    \/ Reindex_Next
    \/ Reindex_Return
    \/ StartStoreQA
    \/ CheckExists
    \/ ReadArchive
    \/ EmbedQuestion
    \/ EmbedAnswer
    \/ StoreCheck
    \/ Upsert
    \/ WriteArchive

ReindexSpec == ReindexInit /\ [][ReindexNext]_vars

(***************************************************************************)
(* The logger singleton: GetLogger and NewLogger                           *)
(* (src/internal/logger/file_logger.go), called by any number of           *)
(* goroutines.  once.Do(f) runs f in the first caller; a caller arriving    *)
(* while f runs waits for it; once f has returned, Do returns at once.      *)
(***************************************************************************)
LogPaths == {"vault/log.json", "tmp/log.json"}

LoggerInit ==
    /\ LoggerStart
    /\ storeEnv = NoStoreEnv
    /\ collection = Collection(VectorSize)
    /\ admin = NoAdmin
    /\ points = {}
    /\ archive = << >>
    /\ uuids = 0
    /\ sq = [c \in Callers |-> NoCall]
    /\ nCalls = 0
    /\ nFaults = 0
    /\ reindex = NoReindex
    /\ variant = "A" /\ chunkLimit = 0 /\ sessLimit = 0
    /\ environ = NoEnviron /\ optEnv = NoOptEnv
    /\ OptionsIdle
    /\ SessionStart

logKept == <<sessionVars, optVars, storeEnv, points, archive, uuids, sq, nCalls,
             nFaults, collVars, reindex>>

\* GetLogger(logPath) is called: var err error
GetLogger_Call ==
    /\ \E g \in LogCallers, logPath \in LogPaths :
          /\ getLogger[g].pc = "none"
          /\ getLogger' = [getLogger EXCEPT ![g].pc = "do", ![g].logPath = logPath]
    /\ UNCHANGED <<logKept, singleton, once>>

\* once.Do: the first caller starts f, a caller after f's return goes on
Once_Do ==
    /\ \E g \in LogCallers :
          /\ getLogger[g].pc = "do"
          /\ once # "running"
          /\ IF once = "new"
             THEN /\ once' = "running"
                  /\ getLogger' = [getLogger EXCEPT ![g].pc = "init"]
             ELSE /\ getLogger' = [getLogger EXCEPT ![g].pc = "ret"]
                  /\ UNCHANGED once
    /\ UNCHANGED <<logKept, singleton>>

\* NewLogger: os.MkdirAll and os.OpenFile succeed, or one of them fails
NewLogger(g, logPath, ok) ==
    IF ok THEN [logger |-> Logger(g, logPath), err |-> "nil"]
    ELSE [logger |-> NoLogger, err |-> "failed to open log file"]

\* singleton, err = NewLogger(logPath), inside once.Do; Do returns
Once_Init ==
    /\ \E g \in LogCallers, ok \in BOOLEAN :
          LET r == NewLogger(g, getLogger[g].logPath, ok) IN
          /\ getLogger[g].pc = "init"
          /\ singleton' = r.logger
          /\ once' = "done"
          /\ getLogger' = [getLogger EXCEPT ![g].pc = "ret", ![g].err = r.err]
    /\ UNCHANGED logKept

\* if err != nil { return nil, fmt.Errorf(...) }; return singleton, nil
GetLogger(err, instance) ==
    IF err # "nil"
    THEN [logger |-> NoLogger, err |-> "failed to initialize logger: " \o err]
    ELSE [logger |-> instance, err |-> "nil"]

GetLogger_Return ==
    /\ \E g \in LogCallers :
          /\ getLogger[g].pc = "ret"
          /\ getLogger' = [getLogger EXCEPT
                              ![g].pc = "done",
                              ![g].ret = GetLogger(getLogger[g].err, singleton)]
    /\ UNCHANGED <<logKept, singleton, once>>

LoggerNext ==
    \/ GetLogger_Call
    \/ Once_Do
    \/ Once_Init
    \/ GetLogger_Return

LoggerSpec == LoggerInit /\ [][LoggerNext]_vars

(***************************************************************************)
(* The collection: VectorStore.EnsureCollection and VectorStore.ResetIndex *)
(* (src/unnamed/part_003), one step per request to the collections         *)
(* service.  The service answers a request by the state of the collection, *)
(* or fails to answer (a transport failure).                               *)
(***************************************************************************)
\* the collection exists or not; an existing one may hold a point
AdminInit ==
    /\ storeEnv = NoStoreEnv
    /\ \/ collection = NoCollection /\ points = {}
       \/ /\ collection = Collection(VectorSize)
          /\ points \in {{}, {Point(1, Embedding(QText(1)), QText(1), AText(1))}}
    /\ admin = NoAdmin
    /\ archive = << >>
    /\ uuids = 0
    /\ sq = [c \in Callers |-> NoCall]
    /\ nCalls = 0
    /\ nFaults = 0
    /\ reindex = NoReindex
    /\ LoggerStart
    /\ variant = "A" /\ chunkLimit = 0 /\ sessLimit = 0
    /\ environ = NoEnviron /\ optEnv = NoOptEnv
    /\ OptionsIdle
    /\ SessionStart

Exists == collection # NoCollection
\* the errors a request can return: "" is nil
GetErrors == IF Exists THEN {"", GrpcUnavailable} ELSE {GrpcNotFound, GrpcUnavailable}
CreateErrors == IF Exists THEN {GrpcAlreadyExists, GrpcUnavailable}
                ELSE {"", GrpcUnavailable}
DeleteErrors == IF Exists THEN {"", GrpcUnavailable}
                ELSE {""} \cup NotFoundTexts \cup {GrpcUnavailable}
\* a transport failure is within the budget of the run
Answered(err) == err # GrpcUnavailable \/ nFaults < MaxFaults
Faults(err) == IF err = GrpcUnavailable THEN nFaults + 1 ELSE nFaults

AdminPrev == IF admin.pc = "done"
             THEN [fn |-> admin.fn, ret |-> admin.ret, after |-> collection]
             ELSE NoAdminPrev
StartAdmin(fn, pc, size) ==
    /\ admin.pc \in {"idle", "done"}
    /\ nCalls < MaxAdminCalls
    /\ nCalls' = nCalls + 1
    /\ admin' = [NoAdmin EXCEPT !.fn = fn, !.pc = pc, !.size = size,
                                !.before = collection,
                                !.points0 = Cardinality(points),
                                !.prev = AdminPrev]
    /\ UNCHANGED <<sessionVars, optVars, logVars, reindex, storeEnv, points, archive, uuids, sq, nFaults,
                   collection>>
\* the call returns err
AdminReturn(err, req) ==
    admin' = [admin EXCEPT !.pc = "done", !.ret = err, !.reqs = Append(@, req)]

\* EnsureCollection(vectorSize) is called
StartEnsureCollection ==
    \E size \in {VectorSize, ShortSize} : StartAdmin("EnsureCollection", "get", size)

\* collectionsClient.Get: nil means the collection exists, any error leads to Create
EnsureCollection_Get ==
    /\ admin.pc = "get"
    /\ \E err \in GetErrors :
          /\ Answered(err)
          /\ nFaults' = Faults(err)
          /\ IF err = ""
             THEN AdminReturn("", Req("Get", err))
             ELSE admin' = [admin EXCEPT !.pc = "create",
                                         !.reqs = Append(@, Req("Get", err))]
    /\ UNCHANGED <<sessionVars, optVars, logVars, reindex, storeEnv, points, archive, uuids, sq, nCalls,
                   collection>>

\* collectionsClient.Create with Size vectorSize and Distance_Cosine
EnsureCollection_Create ==
    /\ admin.pc = "create"
    /\ \E err \in CreateErrors :
          /\ Answered(err)
          /\ nFaults' = Faults(err)
          /\ IF err = ""
             THEN /\ collection' = Collection(admin.size)
                  /\ AdminReturn("", Req("Create", err))
             ELSE /\ AdminReturn("failed to create collection", Req("Create", err))
                  /\ UNCHANGED collection
    /\ UNCHANGED <<sessionVars, optVars, logVars, reindex, storeEnv, points, archive, uuids, sq, nCalls>>

\* ResetIndex() is called; it recreates with the package's vectorSize
StartResetIndex == StartAdmin("ResetIndex", "delete", VectorSize)

\* collectionsClient.Delete, then the test of the error: a deleted collection
\* loses its points
ResetIndex_Delete ==
    /\ admin.pc = "delete"
    /\ \E err \in DeleteErrors :
          /\ Answered(err)
          /\ nFaults' = Faults(err)
          /\ IF err = "" /\ Exists
             THEN collection' = NoCollection /\ points' = {}
             ELSE UNCHANGED <<collection, points>>
          /\ IF err # "" /\ ~isNotFoundError(err)
             THEN AdminReturn("failed to delete collection", Req("Delete", err))
             ELSE admin' = [admin EXCEPT !.pc = "get",
                                         !.reqs = Append(@, Req("Delete", err))]
    /\ UNCHANGED <<sessionVars, optVars, logVars, reindex, storeEnv, archive, uuids, sq, nCalls>>

\* VectorStore.Embed(text) is called and returns
EmbedCall ==
    /\ admin.pc \in {"idle", "done"}
    /\ nCalls < MaxAdminCalls
    /\ nCalls' = nCalls + 1
    /\ \E embedder \in {"nil", "ollama"}, resp \in Responses :
          LET in == [embedder |-> embedder, text |-> QText(1), resp |-> resp]
              out == Embed(embedder, QText(1), resp)
          IN  admin' = [NoAdmin EXCEPT !.fn = "Embed", !.pc = "done",
                                       !.ret = out.err, !.in = in, !.out = out,
                                       !.before = collection,
                                       !.points0 = Cardinality(points),
                                       !.prev = AdminPrev]
    /\ UNCHANGED <<sessionVars, optVars, logVars, reindex, storeEnv, points, archive, uuids, sq, nFaults,
                   collection>>

AdminNext ==
    \/ EmbedCall
    \/ StartEnsureCollection
    \/ EnsureCollection_Get
    \/ EnsureCollection_Create
    \/ StartResetIndex
    \/ ResetIndex_Delete

AdminSpec == AdminInit /\ [][AdminNext]_vars

(***************************************************************************)
(* The options screen: handleKeyMsg, handleOptionsKeyPress,                *)
(* handleOptionsSelection, handleModelInput and handleAPIURLInput          *)
(* (src/unnamed/part_001), with the chat keys that start and cancel a      *)
(* session.  A temperature is a whole number of units, Tenth of them being *)
(* 0.1; a floating-point sum is the exact sum or a neighbour of it.        *)
(***************************************************************************)
\* The environments: many Up / Down presses and no edit, or edits and sessions
OptEnvs ==
    {[keys |-> MaxKeys, edits |-> 0, sessions |-> 0],
     [keys |-> 1, edits |-> MaxEdits, sessions |-> MaxSessions]}

OptionsInit ==
    /\ \E e \in OptEnvs :
          /\ optEnv = [keys |-> e.keys, edits |-> e.edits]
          /\ sessLimit = e.sessions
    /\ environ \in Environs
    /\ OptionsIdle
    /\ variant = "A" /\ chunkLimit = 0
    /\ SessionStart
    /\ storeEnv = NoStoreEnv
    /\ StoreStart

\* handleKeyMsg reaches handleOptionsKeyPress
InOptions == ScreenMode = "options" /\ ~EditingModel /\ ~EditingAPIURL

\* what the text inputs of the options screen can hold after typing
ModelTexts == {"", " ", "llama3"}
URLTexts == {"", "http://remote:11434"}
\* strings.TrimSpace
TrimSpace(s) == IF s = " " THEN "" ELSE s

\* the result of a floating-point addition or subtraction whose exact value is x
Rounded(x) == (x - 1)..(x + 1)
Min2(a, b) == IF a < b THEN a ELSE b
Max2(a, b) == IF a > b THEN a ELSE b

\* tea.KeyCtrlO in chat mode
KeyCtrlO ==
    /\ ConsumerIdle /\ InChat
    /\ ScreenMode' = "options"
    /\ UNCHANGED <<sessionVars, storeVars, SelectedOpt, Temperature, EditingModel,
                   EditingAPIURL, ModelName, ModelInput, APIURLInput, environ,
                   config, request, optEnv, nKeys, nEdits>>

\* tea.KeyCtrlC in the options screen, and the options "Back to Chat" and
\* "Update Qdrant index" (whose goroutine runs StoreCurrentQuestion)
BackToChat ==
    /\ ScreenMode' = "chat"
    /\ SelectedOpt' = 0
    /\ UNCHANGED <<sessionVars, storeVars, Temperature, EditingModel,
                   EditingAPIURL, ModelName, ModelInput, APIURLInput, environ,
                   config, request, optEnv, nKeys, nEdits>>

O_KeyCtrlC == ConsumerIdle /\ InOptions /\ BackToChat

\* tea.KeyTab: Alt+Tab moves up, Tab moves down
O_KeyTab ==
    /\ ConsumerIdle /\ InOptions
    /\ \E alt \in BOOLEAN :
          SelectedOpt' = IF alt THEN (SelectedOpt - 1 + NumOptions) % NumOptions
                         ELSE (SelectedOpt + 1) % NumOptions
    /\ UNCHANGED <<sessionVars, storeVars, ScreenMode, Temperature, EditingModel,
                   EditingAPIURL, ModelName, ModelInput, APIURLInput, environ,
                   config, request, optEnv, nKeys, nEdits>>

\* Up without the upper bound, Down without the lower bound
Adjusted_Unbounded(temperature, up) ==
    IF up THEN Rounded(temperature + Tenth) ELSE Rounded(temperature - Tenth)

\* math.Min(m.Temperature+0.1, 2.0) and math.Max(m.Temperature-0.1, 0.1)
Adjusted(temperature, up) ==
    IF up THEN {Min2(r, TempMax) : r \in Rounded(temperature + Tenth)}
    ELSE {Max2(r, TempMin) : r \in Rounded(temperature - Tenth)}

\* tea.KeyUp, tea.KeyDown: the temperature changes when its option is selected
O_KeyUpDown ==
    /\ ConsumerIdle /\ InOptions
    /\ nKeys < optEnv.keys
    /\ nKeys' = nKeys + 1
    /\ \E up \in BOOLEAN :
          IF SelectedOpt = TemperatureOpt
          THEN Temperature' \in Adjusted(Temperature, up)
          ELSE UNCHANGED Temperature
    /\ UNCHANGED <<sessionVars, storeVars, ScreenMode, SelectedOpt, EditingModel,
                   EditingAPIURL, ModelName, ModelInput, APIURLInput, environ,
                   config, request, optEnv, nEdits>>

\* config.SaveConfig(modelName, temperature, apiURL): the file is written or not
SaveConfig(ok, modelName, temperature, apiURL) ==
    config' = IF ok THEN Config(modelName, temperature, apiURL) ELSE config

\* tea.KeyEnter in the options screen: handleOptionsSelection
O_KeyEnter ==
    /\ ConsumerIdle /\ InOptions
    /\ CASE SelectedOpt = 0 ->
              /\ nEdits < optEnv.edits
              /\ nEdits' = nEdits + 1
              /\ EditingModel' = TRUE
              /\ ModelInput' = ModelName
              /\ UNCHANGED <<sessionVars, storeVars, ScreenMode, SelectedOpt,
                             Temperature, EditingAPIURL, ModelName, APIURLInput,
                             environ, config, request, optEnv, nKeys>>
         [] SelectedOpt = 1 -> UNCHANGED vars
         [] SelectedOpt = 2 ->
              /\ nEdits < optEnv.edits
              /\ nEdits' = nEdits + 1
              /\ EditingAPIURL' = TRUE
              /\ APIURLInput' = APIURL
              /\ UNCHANGED <<sessionVars, storeVars, ScreenMode, SelectedOpt,
                             Temperature, EditingModel, ModelName, ModelInput,
                             environ, config, request, optEnv, nKeys>>
         [] SelectedOpt = 3 ->
              /\ nEdits < optEnv.edits
              /\ nEdits' = nEdits + 1
              /\ \E ok \in BOOLEAN :
                    SaveConfig(ok, ModelName, Temperature,
                               IF APIURLInput = "" THEN APIURL ELSE APIURLInput)
              /\ UNCHANGED <<sessionVars, storeVars, uiVars, environ, request,
                             optEnv, nKeys>>
         [] OTHER -> BackToChat

\* handleModelInput: a key while the model name is edited
handleModelInput ==
    /\ ConsumerIdle /\ EditingModel
    /\ \/ /\ \E v \in ModelTexts : v # ModelInput /\ ModelInput' = v
          /\ UNCHANGED <<EditingModel, ModelName, config>>
       \/ /\ EditingModel' = FALSE       \* tea.KeyEsc, tea.KeyCtrlC
          /\ ModelInput' = ""
          /\ UNCHANGED <<ModelName, config>>
       \/ /\ LET newModel == TrimSpace(ModelInput) IN   \* tea.KeyEnter
             IF newModel # ""
             THEN \E ok \in BOOLEAN :
                     /\ SaveConfig(ok, newModel, Temperature, APIURL)
                     /\ ModelName' = IF ok THEN newModel ELSE ModelName
             ELSE UNCHANGED <<ModelName, config>>
          /\ EditingModel' = FALSE
          /\ ModelInput' = ""
    /\ UNCHANGED <<sessionVars, storeVars, ScreenMode, SelectedOpt, Temperature,
                   EditingAPIURL, APIURLInput, environ, request, optEnv, nKeys,
                   nEdits>>

\* handleAPIURLInput: a key while the API URL is edited
handleAPIURLInput ==
    /\ ConsumerIdle /\ ~EditingModel /\ EditingAPIURL
    /\ \/ /\ \E v \in URLTexts : v # APIURLInput /\ APIURLInput' = v
          /\ UNCHANGED <<EditingAPIURL, config>>
       \/ /\ EditingAPIURL' = FALSE      \* tea.KeyEsc
          /\ UNCHANGED <<APIURLInput, config>>
       \/ /\ LET newURL == TrimSpace(APIURLInput) IN    \* tea.KeyEnter
             IF newURL # ""
             THEN \E ok \in BOOLEAN : SaveConfig(ok, ModelName, Temperature, newURL)
             ELSE UNCHANGED config
          /\ EditingAPIURL' = FALSE
          /\ UNCHANGED APIURLInput
    /\ UNCHANGED <<sessionVars, storeVars, ScreenMode, SelectedOpt, Temperature,
                   EditingModel, ModelName, ModelInput, environ, request, optEnv,
                   nKeys, nEdits>>

OptionsNext ==
    \/ KeyCtrlO
    \/ O_KeyCtrlC
    \/ O_KeyTab
    \/ O_KeyUpDown
    \/ O_KeyEnter
    \/ handleModelInput
    \/ handleAPIURLInput
    \/ KeyRunes
    \/ KeyEnter
    \/ KeyEsc
    \/ CloseStop
    \/ CloseErr
    \/ CloseStream

OptionsSpec == OptionsInit /\ [][OptionsNext]_vars

(***************************************************************************)
(* Properties.                                                             *)
(***************************************************************************)
IsPrefix(a, b) == Len(a) <= Len(b) /\ a = SubSeq(b, 1, Len(a))
Has(s, e) == \E i \in 1..Len(hist[s].events) : hist[s].events[i] = e
\* the chunks c1..cn the producer of s has emitted
Emitted(s) == ChunksUpTo(emitted[s])
\* the remote call of s finished without error, and the session was not canceled
CleanFinish(s) == hist[s].ret = "nil" /\ ~Has(s, "Canceled")
StoreCallsOf(s) == {i \in 1..Len(storeCalls) : storeCalls[i].sess = s}
\* no goroutine of the program can take a step: only the user can act
Quiet == ~ENABLED (CloseStop \/ CloseErr \/ CloseStream \/ UpdateMsg \/ NextToken
                     \/ SaveStep \/ ProducerA \/ ProducerB)

\* C1: for every session whose remote call finished without error and without
\* cancellation after the non-empty chunks c1..cn, n >= 1, the value saveCmd
\* received from the full-response channel is concat(c1..cn).
C1_SavedTextIsConcat ==
    \A s \in Sessions :
        (Running /\ CleanFinish(s) /\ emitted[s] >= 1 /\ save[s].st = "done")
            => save[s].got = Concat(Emitted(s))

\* C2: no token is lost or reordered: in a session that is not canceled the
\* chunks the consumer has observed as TokenMsg are, at every moment, the first
\* chunks the producer emitted, each once and in emission order, also when the
\* token channel (capacity 64) is full.
C2_ObservedIsPrefixOfEmitted ==
    \A s \in Sessions :
        ~Has(s, "Canceled") => IsPrefix(hist[s].observed, Emitted(s))

\* C3: the archival step receives a value from the full-response channel only
\* after the remote call of the session has returned and the consumer has
\* observed every chunk the session emitted: never while chunks are still to be
\* emitted or still undelivered.
C3_FullResponseAfterLastToken ==
    [][\A s \in Sessions :
          (save[s].st = "waiting" /\ save'[s].st = "done" /\ respCh[s].buf # << >>)
              => (hist[s].ret # "" /\ hist[s].observed = Emitted(s))]_vars

\* C4: once the consumer has canceled a session (Esc while Streaming), StoreQA is
\* not invoked for it, and no StoreQA call was made for it before either: a
\* canceled session has no StoreQA call, whatever was emitted before the cancel.
C4_CanceledNeverStored ==
    \A s \in Sessions : Has(s, "Canceled") => StoreCallsOf(s) = {}

\* C5: a session whose remote call finished without error after zero chunks
\* gets no ErrorEvent and no StoreQA call, and the consumer does not stay in
\* Streaming once nothing but the user can act: it has left through an EndEvent.
C5_EmptyResponseCompletes ==
    \A s \in Sessions :
        (CleanFinish(s) /\ emitted[s] = 0)
            => /\ ~Has(s, "Errored")
               /\ StoreCallsOf(s) = {}
               /\ (Running /\ Quiet /\ nSessions = s)
                      => (~Streaming /\ Has(s, "Completed"))

\* C6: after the consumer signaled cancellation (the stop channel is closed), no
\* chunk enters the token channel.
C6_NoTokenAfterCancel ==
    \A s \in Sessions : ~hist[s].stopPush

\* C7: when a session completes, its token channel is not closed twice: the
\* consumer's handling of the EndEvent (handleStreamEnd -> safeCloseChannels)
\* never executes close on a token channel the producer has closed.
C7_NoDoubleClose ==
    \A s \in Sessions : Has(s, "Completed") => Len(hist[s].outCloses) <= 1

\* C8: every session has at most one terminal event (Completed, Errored or
\* Canceled), and after it the producer attempts no send on a channel of the
\* session.
C8_OneTerminalState ==
    \A s \in Sessions : Len(hist[s].events) <= 1 /\ ~hist[s].lateSend

\* C9: when the remote call finished without error, the consumer gets no
\* ErrorEvent for the session, and it is not left waiting: once nothing but the
\* user can act, every emitted chunk was observed, the EndEvent was handled and
\* Streaming is false.
C9_CleanEndObserved ==
    \A s \in Sessions :
        CleanFinish(s)
            => /\ ~Has(s, "Errored")
               /\ (Running /\ Quiet /\ nSessions = s)
                      => /\ hist[s].observed = Emitted(s)
                         /\ Has(s, "Completed")
                         /\ ~Streaming

\* C10: when the remote call returned an error in a session that was not
\* canceled, the error enters the error channel once, the only terminal event of
\* the session is the ErrorEvent, no channel is closed twice, and once the consumer
\* has handled the event and closed the channels an error message is shown,
\* Streaming is false and the three channel fields are nil.
C10_RemoteErrorDelivered ==
    \A s \in Sessions :
        (hist[s].ret = "service error" /\ ~Has(s, "Canceled"))
            => /\ hist[s].errSent <= 1
               /\ Has(s, "Errored") => hist[s].errSent = 1
               /\ \A i \in 1..Len(hist[s].events) : hist[s].events[i] = "Errored"
               /\ Has(s, "Errored") => Len(hist[s].outCloses) <= 1
               /\ (ConsumerIdle /\ nSessions = s /\ Has(s, "Errored"))
                      => /\ Msg.err # ""
                         /\ ~Streaming
                         /\ StreamCh = Nil /\ ErrCh = Nil /\ StopCh = Nil

\* C11: a panic raised inside the producer (a send on, or a close of, a channel
\* the consumer has closed during cancellation or quit) never leaves the producer
\* goroutine: the process does not crash with the producer's panic, in every
\* interleaving of producer steps with the consumer's teardown.
C11_ProducerPanicContained ==
    ~(phase = "crashed" /\ panic = SendOnClosed)

\* the sessions a step starts: their producer goroutine begins
Started == {s \in Sessions : prod[s].pc = "none" /\ prod'[s].pc = "call"}

\* C12: a step starts a session only from a state where no session is Streaming
\* and the question is non-empty, and then it starts exactly one producer (with
\* one archival waiter) for that question; a step taken while Streaming, or with an
\* empty question, starts no producer, allocates no channel and keeps the last
\* question.  Hence at most one session is in Streaming at any time: Streaming
\* becomes true only in a step that starts one session, from Streaming false.
C12_SubmitStartsOneSession ==
    [][/\ Started # {}
            => /\ ~Streaming /\ TextInput # ""
               /\ Streaming' /\ LastQuestion' = TextInput
               /\ Started = {nSessions'}
               /\ \A s \in Started : save'[s].st = "waiting" /\ save[s].st = "none"
       /\ (~Streaming /\ Streaming') => Cardinality(Started) = 1
       /\ (Running' /\ (Streaming \/ TextInput = ""))
            => /\ Started = {}
               /\ LastQuestion' = LastQuestion
               /\ StreamCh' \in {StreamCh, Nil}
               /\ ErrCh' \in {ErrCh, Nil}
               /\ StopCh' \in {StopCh, Nil}]_vars

\* a second session was submitted after the first one ended, and a further
\* Enter can be pressed while it is Streaming
C12_SecondSessionStreaming ==
    /\ Running /\ ConsumerIdle /\ Streaming /\ TextInput # ""
    /\ nSessions = MaxSessions /\ prod[MaxSessions].pc = "call"
    /\ Terminal(1)

\* C13: no background work is leaked: once a session has a terminal event and
\* no goroutine of the program can take a step any more (the remote call has
\* returned), the producer goroutine of the session has ended and its archival
\* waiter is not blocked receiving from the full-response channel.
C13_NoLeakedWork ==
    \A s \in Sessions :
        (Running /\ Quiet /\ Terminal(s))
            => /\ prod[s].pc = "done" /\ prod[s].exit # "deadlock"
               /\ save[s].st # "waiting"

\* C14: channel teardown is idempotent: each step of safeCloseChannels closes
\* the channel of its field exactly when the field is non-nil and leaves the
\* field nil, so an invocation with some fields nil closes exactly the non-nil
\* ones, an invocation with all three nil (the second of two in a row) closes
\* nothing and changes no field, and no invocation panics.
C14_TeardownIdempotent ==
    [][/\ panic' # DoubleClose
       /\ (cpc = "closeStop" /\ cpc' = "closeErr")
            => /\ StopCh' = Nil
               /\ StopCh = Nil => stopCh' = stopCh
               /\ StopCh # Nil => (~stopCh[StopCh] /\ stopCh'[StopCh])
       /\ (cpc = "closeErr" /\ cpc' = "closeStream")
            => /\ ErrCh' = Nil
               /\ ErrCh = Nil => errCh' = errCh
               /\ ErrCh # Nil => (~errCh[ErrCh].closed /\ errCh'[ErrCh].closed)
       /\ (cpc = "closeStream" /\ cpc' = "idle" /\ Running')
            => /\ StreamCh' = Nil /\ ErrCh' = Nil /\ StopCh' = Nil
               /\ StreamCh = Nil => outCh' = outCh
               /\ StreamCh # Nil
                     => (~outCh[StreamCh].closed /\ outCh'[StreamCh].closed)]_vars

\* ---- the store ----
\* the stored points of the pair (q, a)
PointsOf(q, a) == {p \in points : p.payload.question = q /\ p.payload.answer = a}
\* the operations of a kind a call has made, as positions in its list
OpsOf(call, kind) == {i \in 1..Len(call.ops) : call.ops[i].op = kind}
Upserts(call) == Cardinality(OpsOf(call, "upsert"))
\* the calls are made one after the other
Sequential == storeEnv.callers = 1
\* a finished call that repeats the pair of the call before it, both without a
\* failure of the embedder, the store or the file system
Resubmitted(call) ==
    /\ call.pc = "done" /\ Clean(call)
    /\ call.prev.clean /\ call.prev.q = call.q /\ call.prev.a = call.a

\* C15: after two calls of Model.StoreQA in a row with the same (q, a), the
\* embedder and the store answering in both, the store holds exactly one point
\* for (q, a): the second call returned nil and made no upsert.
C15_TwiceStoresOnce ==
    \A c \in Callers :
        (Sequential /\ Resubmitted(sq[c]))
            => /\ Cardinality(PointsOf(sq[c].q, sq[c].a)) = 1
               /\ Upserts(sq[c]) = 0
               /\ sq[c].ret = "nil"

\* C16: no duplicate records: while the calls of Model.StoreQA are made one
\* after the other and the embedder and the store answer, the store holds at
\* most one point for every pair (question, answer), also when more than
\* SearchLimit points share a question.
C16_NoDuplicateRecords ==
    (Sequential /\ nFaults = 0)
        => \A p1, p2 \in points :
              (/\ p1.payload.question = p2.payload.question
               /\ p1.payload.answer = p2.payload.answer) => p1 = p2

\* C17: every finished call of Model.StoreQA in which nothing failed has
\* appended exactly one entry, its (q, a), to the archive file, whether the store
\* held the pair already or not; a call that repeats the pair of the call before
\* it leaves the number of points unchanged and still adds its archive entry.
C17_OneArchiveEntryPerCall ==
    \A c \in Callers :
        (Sequential /\ sq[c].pc = "done" /\ Clean(sq[c]))
            => /\ Len(archive) = sq[c].arch0 + 1
               /\ archive[Len(archive)] = NewQA(sq[c])
               /\ Resubmitted(sq[c]) => Cardinality(points) = sq[c].points0

\* a finished call whose pair had no point in the store when it began, made with
\* the embedder, the store and the archive working, one call at a time
StoredNew(call) ==
    /\ Sequential /\ call.pc = "done" /\ Clean(call)
    /\ \A p \in points :
          (p.payload.question = call.q /\ p.payload.answer = call.a)
              => \E i \in OpsOf(call, "upsert") : call.ops[i].arg = p

\* C18: a call of Model.StoreQA for a pair (q, a) without a point in the store,
\* with everything working, makes exactly one upsert: its vector is the
\* embedding of q, its id is the id of no point stored before (the store grows
\* by one point), its payload has type = qa_pair, question = q and answer = a;
\* and the call appends exactly one archive entry (q, a).
C18_NewPairStoredOnce ==
    \A c \in Callers :
        StoredNew(sq[c])
            => /\ Upserts(sq[c]) = 1
               /\ \A i \in OpsOf(sq[c], "upsert") :
                     LET pt == sq[c].ops[i].arg IN
                     /\ pt.vector = Embedding(sq[c].q)
                     /\ pt.payload.type = "qa_pair"
                     /\ pt.payload.question = sq[c].q
                     /\ pt.payload.answer = sq[c].a
                     /\ pt \in points
               /\ Cardinality(points) = sq[c].points0 + 1
               /\ Cardinality({p.id : p \in points}) = Cardinality(points)
               /\ Len(archive) = sq[c].arch0 + 1
               /\ archive[Len(archive)] = NewQA(sq[c])
               /\ sq[c].ret = "nil"

\* a call has stored a new pair while the store held points of other pairs
C18_StoredBesideOthers ==
    \E c \in Callers :
        /\ StoredNew(sq[c]) /\ Upserts(sq[c]) = 1
        /\ sq[c].points0 >= 1

\* the positions of the failed operations of a kind in a call
FailedOps(call, kind) == {i \in OpsOf(call, kind) : ~call.ops[i].ok}

\* C19: a call of Model.StoreQA in which a similarity search failed (the
\* embedding before it succeeded) stores no point and returns an error, also
\* when a later search of the same call succeeds.
C19_SearchErrorPropagated ==
    \A c \in Callers :
        FailedOps(sq[c], "search") # {}
            => /\ OpsOf(sq[c], "upsert") \subseteq FailedOps(sq[c], "upsert")
               /\ sq[c].pc = "done" => sq[c].ret # "nil"

\* C20: when an embedding of the question fails in a call of Model.StoreQA, the
\* call has returned with an error, and the failed embedding is its last
\* operation: no embedding, search or upsert follows it.
C20_EmbedErrorReturnsAtOnce ==
    \A c \in Callers :
        \A i \in FailedOps(sq[c], "embed") :
            sq[c].ops[i].arg = sq[c].q
                => /\ sq[c].pc = "done" /\ sq[c].ret # "nil"
                   /\ \A j \in (i + 1)..Len(sq[c].ops) :
                         sq[c].ops[j].op \notin {"embed", "search", "upsert"}

\* a finished call, made alone, in which an embedding, a search or an upsert
\* failed while the archive file could be read and written
RemoteFailed(call) ==
    /\ Sequential /\ call.pc = "done"
    /\ FailedOps(call, "embed") \cup FailedOps(call, "search")
          \cup FailedOps(call, "upsert") # {}
    /\ FailedOps(call, "read") \cup FailedOps(call, "write") = {}

\* C21: when an embedding, a search or an upsert fails in a call of
\* Model.StoreQA, the call stores no point, and it still appends its pair to the
\* archive file: the archive grows by the one entry (q, a).
C21_ArchiveAppendDespiteErrors ==
    \A c \in Callers :
        RemoteFailed(sq[c])
            => /\ OpsOf(sq[c], "upsert") \subseteq FailedOps(sq[c], "upsert")
               /\ Len(archive) = sq[c].arch0 + 1
               /\ archive[Len(archive)] = NewQA(sq[c])

\* ---- the collection ----
ReqsOf(name) == {i \in 1..Len(admin.reqs) : admin.reqs[i].req = name}
Finished(fn) == admin.fn = fn /\ admin.pc = "done"

\* C22: a finished EnsureCollection that found no collection and returned nil
\* has created it with cosine distance and the given dimension; one that found
\* the collection existing has returned nil, has issued no Create request and has
\* left the collection as it was.
C22_EnsureCollectionIdempotent ==
    Finished("EnsureCollection")
        => /\ (admin.before = NoCollection /\ admin.ret = "")
                 => collection = Collection(admin.size)
           /\ admin.before # NoCollection
                 => /\ admin.ret = ""
                    /\ ReqsOf("Create") = {}
                    /\ collection = admin.before

\* the service answered every request of the call
AllAnswered == \A i \in 1..Len(admin.reqs) : admin.reqs[i].err # GrpcUnavailable

\* C23: a finished ResetIndex that found no collection, and whose requests were
\* all answered by the service, has returned nil and has left an empty collection
\* of dimension 1024.
C23_ResetIndexOnAbsentCollection ==
    (Finished("ResetIndex") /\ admin.before = NoCollection /\ AllAnswered)
        => /\ admin.ret = ""
           /\ collection = Collection(VectorSize)
           /\ points = {}

\* the vector a search of the call carried: the embedding of the op's question
SentVectors(call) ==
    {Embedding(call.ops[i].arg) : i \in OpsOf(call, "search")}
        \cup {call.ops[i].arg.vector : i \in OpsOf(call, "upsert")}

\* C24: the collection keeps dimension 1024 and no call has issued a search or
\* an upsert carrying a vector of another length.
C24_NoVectorOfOtherLength ==
    /\ collection.size = VectorSize
    /\ \A c \in Callers : \A v \in SentVectors(sq[c]) : v.len = VectorSize

\* ---- the embedder ----
\* C25: a finished Embed call returned nil exactly when an embedder is
\* configured, the request was answered with status 200 and a decodable body
\* holding a non-empty embedding; then the returned vector is that embedding and
\* is not empty.  Without an embedder the error is "no embedder configured" and
\* the embedder was not called.
C25_EmbedFailsOrReturnsVector ==
    Finished("Embed")
        => LET in == admin.in
               out == admin.out
               good == /\ in.resp.sent /\ in.resp.status = StatusOK
                       /\ in.resp.decodes /\ in.resp.len > 0
           IN  /\ out.err = "" <=> (in.embedder # "nil" /\ good)
               /\ out.err = "" => out.vec.len = in.resp.len /\ out.vec.len > 0
               /\ in.embedder = "nil"
                     => out.err = "no embedder configured" /\ ~out.called

\* every failing case and a success have been seen at the end of a call
C25_EmptyEmbeddingRefused ==
    /\ Finished("Embed")
    /\ admin.in.embedder # "nil"
    /\ admin.in.resp.sent /\ admin.in.resp.status = StatusOK /\ admin.in.resp.decodes
    /\ admin.in.resp.len = 0
    /\ admin.out.err = "no embedding data returned from Ollama"
    /\ admin.prev.fn = "Embed" /\ admin.prev.ret = ""

\* ---- NextTokenCmd ----
\* the message a step of the command c added to the inbox
Produced(c) == BagToSet(inbox' (-) inbox)

\* C27: every step of NextTokenCmd adds one message: StreamErrMsg with the error
\* received from the error channel, StreamEndMsg for a closed error channel,
\* TokenMsg with the value received from the token channel, or StreamEndMsg for
\* a closed token channel; it adds no other message.
C27_NextTokenCmdMapping ==
    [][\A c \in BagToSet(cmds) :
          (cmds' = cmds (-) One(c) /\ inbox' # inbox /\ Running')
              => \E m \in Produced(c) :
                    /\ Produced(c) = {m}
                    /\ \/ /\ errCh[c.errCh].buf # << >>
                          /\ m = StreamErrMsg(Head(errCh[c.errCh].buf), c.ch)
                       \/ /\ errCh[c.errCh].buf = << >> /\ errCh[c.errCh].closed
                          /\ m = StreamEndMsg(c.ch)
                       \/ /\ outCh[c.ch].buf # << >>
                          /\ m = TokenMsg(Head(outCh[c.ch].buf), c.ch)
                       \/ /\ outCh[c.ch].buf = << >> /\ outCh[c.ch].closed
                          /\ m = StreamEndMsg(c.ch)]_vars

\* ---- QAExists ----
\* p holds the pair of the call
SamePair(p, call) == p.payload.question = call.q /\ p.payload.answer = call.a

\* C28: every QAExists of a call answered true exactly when one of the points
\* the search returned holds the call's question and the call's answer; and a
\* call in which QAExists answered true has made no upsert.
C28_ExistsIffExactPair ==
    \A c \in Callers :
        \A i \in 1..Len(sq[c].checks) :
            LET chk == sq[c].checks[i] IN
            /\ chk.exists <=> \E p \in chk.hits : SamePair(p, sq[c])
            /\ chk.exists => Upserts(sq[c]) = 0

\* a call found its pair among hits that also hold a point with the same
\* question and another answer; the call before it had stored that pair
C28_QuestionAloneIsNoDuplicate ==
    \E c \in Callers :
        /\ sq[c].pc = "done" /\ sq[c].ret = "nil"
        /\ \E i \in 1..Len(sq[c].checks) :
              /\ sq[c].checks[i].exists
              /\ \E p \in sq[c].checks[i].hits :
                    p.payload.question = sq[c].q /\ p.payload.answer # sq[c].a
        /\ sq[c].prev.q = sq[c].q /\ sq[c].prev.a = sq[c].a /\ sq[c].prev.clean
        /\ Cardinality(points) = 2

\* ---- session start ----
\* the session s starts in this step
Starts(s) == nSessions = s - 1 /\ nSessions' = s

\* the consumer has closed the three channels made for the session r
Destroyed(r) == stopCh[r] /\ errCh[r].closed /\ outCh[r].closed

\* C29: a session starts only while no session is streaming and after the
\* channels of every earlier session have been closed; the token, error and
\* stop channels of the new session are made in that step, are open, and are
\* not the channels of the producer of an earlier session.
C29_SessionNeverReentered ==
    [][\A s \in Sessions :
          Starts(s)
              => /\ ~Streaming
                 /\ \A r \in 1..(s - 1) : Destroyed(r)
                 /\ StreamCh' = s /\ ErrCh' = s /\ StopCh' = s
                 /\ ~outCh[s].closed /\ ~errCh[s].closed /\ ~stopCh[s]
                 /\ \A r \in 1..(s - 1) :
                       /\ prod[r].out # StreamCh'
                       /\ prod[r].errCh # ErrCh'
                       /\ prod[r].stop # StopCh']_vars

\* the second session streams on its own channels while the producer of the
\* first, cancelled session is still inside ChatStream
C29_SecondSessionBesideOldProducer ==
    /\ nSessions = 2 /\ Streaming
    /\ StreamCh = 2 /\ ErrCh = 2 /\ StopCh = 2
    /\ prod[1].pc = "call" /\ prod[1].out = 1
    /\ prod[2].pc = "call" /\ prod[2].out = 2

\* ---- the archive ----
\* the call of c writes the archive in this step
Appends(c) == sq[c].pc = "write" /\ sq'[c].pc = "done" /\ sq'[c].ret = "nil"

ArchiveUnreadable(call) ==
    /\ FailedOps(call, "read") # {}
    /\ call.arch0 > 0

C32_TemperatureStaysInRange ==
    [][/\ TempMin <= Temperature /\ Temperature <= TempMax
       /\ TempMin <= Temperature' /\ Temperature' <= TempMax
       /\ Temperature = TempMax => Adjusted(Temperature, TRUE) = {Temperature}
       /\ Temperature = TempMin => Adjusted(Temperature, FALSE) = {Temperature}
       /\ Temperature' # Temperature
             => /\ InOptions /\ SelectedOpt = TemperatureOpt
                /\ nKeys' = nKeys + 1
                /\ Temperature' \in Adjusted(Temperature, TRUE)
                                      \cup Adjusted(Temperature, FALSE)]_vars

\* the temperature was brought down from 1.5 to 0.1 and a further press made
C32_PressedAtLowerBound ==
    /\ Temperature = TempMin
    /\ nKeys = MaxKeys
    /\ SelectedOpt = TemperatureOpt
    /\ InOptions

\* C39: once settings were saved from the options screen, every session started
\* afterwards in the run sends its generation request to the saved API URL, and
\* with the saved model name.
C39_NextSessionUsesSavedSettings ==
    [][(nSessions' = nSessions + 1 /\ config # NoConfig)
          => /\ request'.url = config.api_url
             /\ request'.model = config.model_name]_vars

AllChannels == StreamCh # Nil /\ ErrCh # Nil /\ StopCh # Nil
NoChannels == StreamCh = Nil /\ ErrCh = Nil /\ StopCh = Nil

\* C33: in every state of the running program between two Update calls, the
\* Streaming flag agrees with the channel fields: Streaming is true exactly when
\* StreamCh, ErrCh and StopCh are all non-nil, and false exactly when all three
\* are nil.
C33_StreamingAgreesWithChannels ==
    ConsumerIdle => /\ Streaming <=> AllChannels
                    /\ ~Streaming <=> NoChannels

\* a second session is streaming on channels of its own after the first one was
\* canceled and its channels closed
C33_SecondSessionStreaming ==
    /\ ConsumerIdle /\ Streaming /\ AllChannels
    /\ nSessions = 2 /\ StreamCh = 2
    /\ outCh[1].closed /\ errCh[1].closed /\ stopCh[1]

\* the message msg is handled by this step of Update
Handled(msg) == ConsumerIdle /\ Running' /\ inbox' = inbox (-) One(msg)

\* C34: a Token, End or Error message that a NextTokenCmd of session k produced
\* and that Update handles after session k was canceled or ended does not change
\* the visible response, does not clear the Streaming flag, and does not begin
\* the close of the channels of a later session.
C34_StaleEventsHaveNoEffect ==
    [][\A msg \in BagToSet(inbox) :
          (Handled(msg) /\ msg.type \in {"Token", "End", "Err"} /\ Terminal(msg.src))
              => /\ Msg' = Msg
                 /\ Streaming' = Streaming
                 /\ (StreamCh # Nil /\ StreamCh # msg.src) => cpc' = "idle"]_vars

\* C37: when the NextTokenCmd of the current session received the error e the
\* producer sent and Update handles its StreamErrMsg, the message shown after the
\* handling is "Error: " followed by e, not the unknown-error message.
C37_ErrorTextShown ==
    [][\A msg \in BagToSet(inbox) :
          (Handled(msg) /\ msg.type = "Err" /\ msg.src = nSessions /\ Streaming)
              => Msg' = ErrorMsg("Error: " \o msg.err)]_vars

\* the archive holds the entry e
InArchive(e) == \E k \in 1..Len(archive) : archive[k] = e
\* the Model.StoreQA call of the save command, beside the re-index
SaveCall == sq[1]
BothReturned ==
    /\ storeEnv.name = "beside"
    /\ reindex.pc = "done"
    /\ SaveCall.pc = "done" /\ SaveCall.ret = "nil"

\* C35: when the Model.StoreQA call of a save command and the re-index goroutine
\* ran at once and have both returned without error, no archive entry is lost
\* (the archive holds the entries the goroutine read and the entry the save
\* command appended) and the store holds at most one point per pair (question,
\* answer).
C35_ConcurrentStoresLoseNothing ==
    BothReturned
        => /\ \A k \in 1..Len(reindex.file) : InArchive(reindex.file[k])
           /\ OpsOf(SaveCall, "write") # {} => InArchive(NewQA(SaveCall))
           /\ \A p1, p2 \in points :
                 (/\ p1.payload.question = p2.payload.question
                  /\ p1.payload.answer = p2.payload.answer) => p1 = p2

\* the entries of a file that have a question and an answer
Indexable(file) ==
    {file[k] : k \in {j \in 1..Len(file) :
                         file[j].question # NoText /\ file[j].answer # NoText}}
\* the pairs the store holds
StoredPairs == {QA(p.payload.question, p.payload.answer) : p \in points}

\* C36: a re-index that ran with no other writer and no failure leaves the
\* archive file with the entries it had when the re-index began, whatever subset
\* of the archived pairs the store was missing; the store then holds the pairs it
\* held before and the archived pairs with a question and an answer, and no
\* pair of an entry whose question or answer is empty.
C36_ReindexKeepsArchive ==
    (storeEnv.name = "alone" /\ reindex.pc = "done")
        => /\ archive = reindex.file
           /\ StoredPairs = Indexable(reindex.file)
           /\ \A p \in points : p.payload.question # NoText /\ p.payload.answer # NoText

\* the GetLogger calls that have returned
Returned == {g \in LogCallers : getLogger[g].pc = "done"}

\* C38: GetLogger is a singleton: all the calls that returned without error
\* returned the same Logger, whatever their paths and their interleaving, and no
\* call returned a nil Logger with a nil error, also after the first
\* initialization failed.
C38_GetLoggerSingleton ==
    /\ \A g, h \in Returned :
          (getLogger[g].ret.err = "nil" /\ getLogger[h].ret.err = "nil")
              => getLogger[g].ret.logger = getLogger[h].ret.logger
    /\ \A g \in Returned :
          ~(getLogger[g].ret.logger = NoLogger /\ getLogger[g].ret.err = "nil")
====
